---------------------------- MODULE Spec2Model ----------------------------
(***************************************************************************)
(* Verification model of gateway-go: route matching (the dispatcher        *)
(* middleware of main.go and router.Manager), the plugin manager and its   *)
(* route chains, and the configuration reload machinery.                   *)
(***************************************************************************)
EXTENDS Integers, Sequences, FiniteSets, TLC

(***************************************************************************)
(* Bounds of the model.                                                    *)
(***************************************************************************)
MaxPathLen == 2      \* request paths and route patterns have 1..MaxPathLen bytes
MaxPriority == 2     \* match.priority ranges over 1..MaxPriority
MaxRoutes == 2       \* routes per configuration in the matching specification
MaxPreds == 1        \* declared non-path predicates per configuration, and
                     \* attributes of a request that differ from the declared values
MaxLimitReqs == 2    \* requests inside the rate limiter at the same time
MaxBuckets == 2      \* token buckets made in one behaviour
MaxShort == 1        \* one-second steps of the clock after each five-minute step
MaxTime == 301       \* the clock stops here
MaxCbReqs == 3       \* requests inside the circuit breaker at the same time
MaxRecords == 4      \* responses one breaker records, with those still awaited
MaxOverdraw == 1     \* requests that find the half-open quota used up
MaxCbTime == 3       \* the clock of the breaker specification stops here
MaxRecorders == 2    \* goroutines that record an outcome in one window at the same time
MaxWinRecords == 3   \* outcomes recorded in the window, with those being recorded
MaxWinTime == 2      \* the clock of the window specification stops here
MaxProxyPathLen == 3 \* bytes in the path of a request that is forwarded
MaxAttempts == 3     \* calls to the upstream whose outcomes are drawn
MaxNonceTime == 302  \* the clock of the replay specification stops here
MaxBodyLen == 2      \* pieces in the body of an answer of the auth service
MaxWrites == 3       \* writes of the configuration file that the watcher sees
MaxNonceReqs == 2    \* goroutines inside the consistency plugin at the same time
MaxCacheTime == 11   \* the clock of the plugin-result cache stops here
AddrBits == 2        \* width of an IP address
MaxInits == 3        \* times the IP whitelist plugin is initialised
MaxCallers == 2      \* goroutines calling the LifecycleManager
MaxFallbackCallers == 2  \* goroutines calling the FallbackHandler
MaxFallbackTime == 4 \* the clock of the FallbackHandler stops here
MaxErrors == 2       \* no RecordError is called when h.errors is this long
RecoveryTime == 2    \* FallbackConfig.RecoveryTime of the handler, in seconds
MaxVersions == 2     \* ConfigCenter.maxVersions
MaxUnixNano == 3     \* the clock of the ConfigCenter stops here

VARIABLES
    file,             \* the content of the configuration file
    currentConfig,    \* ConfigManager.currentConfig
    engineRoutes,     \* the priority-sorted routes captured by the middleware of the
                      \* engine installed as globalServer.Handler
    mgrRoutes,        \* router.Manager.config.Routes
    trieRouter,       \* router.Manager.trieRouter: <<>> (nil) or <<[key -> route]>>
    routeCache,       \* router.Manager.routeCache: <<>> (nil) or <<[path -> route]>>
    lastReq,          \* the request of the last route lookup (<<>> before the first)
    dispSel,          \* what the dispatcher selected for lastReq: <<>> or <<route>>
    mgrSel,           \* what Manager.MatchRoute returned for lastReq: <<>> or <<route>>
    lookup            \* how the last lookup ended: "none", "disp", "cache", "trie",
                      \* "linear", "nomatch", "blocked"

VARIABLES
    reload,           \* the running ReloadConfig call: its position and the config it passes on
    lastReload,       \* how the last ReloadConfig call ended: "none", "ok", "failed"
    availablePlugins, \* plugin.Manager.availablePlugins (names; the values are the reg's)
    routeChains,      \* plugin.Manager.routeChains: [route name -> plugin names in order]
    registry,         \* plugin.Manager.registry: per name the instance, its config, whether stopped
    pluginCache,      \* plugin.Manager.pluginCache: [key -> unexpired entry]
    inflight,         \* the request in the dispatcher middleware, or the last one
                      \* finished since a reload began: <<>> or <<record>>
    hist              \* what was in effect when the last ReloadConfig call began

VARIABLES
    now,              \* time.Now() in seconds
    buckets,          \* RateLimitPlugin.buckets: [key -> index of the bucket in bucketHeap]
    bucketHeap,       \* every TokenBucket made so far; requests hold indexes into it
    limitReqs,        \* per goroutine slot a request inside RateLimitPlugin.Execute
    lastSweep,        \* when cleanupBuckets ran last, -1 before the first run
    admits,           \* requests admitted at the present second
    lastSeen,         \* when the limiter key was requested last, -1 if never
    epochAdmits       \* requests admitted since the key was last idle for over 5 minutes

limiterVars == <<now, buckets, bucketHeap, limitReqs, lastSweep, admits, lastSeen, epochAdmits>>

VARIABLES
    circuitBreakers,  \* CircuitBreakerPlugin.circuitBreakers: [target -> CircuitBreaker]
    cbReqs,           \* per goroutine slot a request that passes the circuit breaker
    verdict,          \* the last verdict of allowRequest and what it was based on
    outcome,          \* the last response recorded, and the tally of all recorded ones
    openedAt,         \* when the breaker's state was last set to open, -1 if never
    trials            \* requests admitted, failed and succeeded since the breaker
                      \* last turned half-open

breakerVars == <<circuitBreakers, cbReqs, verdict, outcome, openedAt, trials>>

VARIABLES
    win,              \* a Window whose buckets are pointers: slots[i] is the index in
                      \* heap of the Bucket that w.buckets[i-1] points to
    recorders,        \* per goroutine a call of RecordFailure or RecordSuccess
    recordsDone       \* the calls of RecordFailure and of RecordSuccess that returned

windowVars == <<win, recorders, recordsDone>>

VARIABLES
    served            \* the last request the dispatcher middleware has answered, with the
                      \* calls it made to the upstream: <<>> or <<record>>

proxyVars == <<served>>

VARIABLES
    usedNonces,       \* ConsistencyPlugin.usedNonces: [nonce -> when it was stored]
    nonceLog,         \* the nonces stored so far, and the last request checked
    nonceReqs         \* per goroutine a request inside checkRequest, or its result

nonceVars == <<usedNonces, nonceLog, nonceReqs>>

VARIABLES
    authLog           \* the last request interface_auth has executed, with the answer
                      \* of the auth service and what the plugin did: <<>> or <<record>>

authVars == <<authLog>>

VARIABLES
    watch             \* the goroutine of WatchConfig, cm.reloadChan, cm.stopChan and the
                      \* goroutine of StartReloadWorker

watchVars == <<watch>>

VARIABLES
    timedCache,       \* Manager.pluginCache with the Expire of every entry (and who set it)
    cacheLog          \* the last request that went through a chain with the cache

cacheVars == <<timedCache, cacheLog>>

VARIABLES
    ipWhitelist,      \* IPWhitelistPlugin.ipWhitelist: the keys of the sync.Map
    ipLog             \* how often Init has run, the list of the last Init, and the last
                      \* request since: <<>> or <<record>>

whitelistVars == <<ipWhitelist, ipLog>>

VARIABLES
    lifecycle         \* the LifecycleManager: m.plugins, the plugin instances, the calls
                      \* of Start, Stop and UpdateConfig in progress

lifecycleVars == <<lifecycle>>

VARIABLES
    fallback          \* the FallbackHandler: errors, lastError, isDegraded, the holders of
                      \* h.mu's read lock, and the calls in progress

fallbackVars == <<fallback>>

VARIABLES
    parked            \* of the two goroutines that call ReloadConfig (the reload worker and
                      \* the signal handler), the one that is not running: its name and
                      \* its position in ReloadConfig; reload is the position of the other

signalVars == <<parked>>

VARIABLES
    center            \* the ConfigCenter: currentConfig, versions, the last reading of the
                      \* clock, and the last call with its result: <<>> or <<record>>

centerVars == <<center>>

\* the state of the components that only their own specification moves
otherVars == <<windowVars, proxyVars, nonceVars, authVars, watchVars, cacheVars, whitelistVars, lifecycleVars, fallbackVars, signalVars, centerVars>>

\* otherVars without the component named
besideWindow == <<proxyVars, nonceVars, authVars, watchVars, cacheVars, whitelistVars, lifecycleVars, fallbackVars, signalVars, centerVars>>
besideProxy == <<windowVars, nonceVars, authVars, watchVars, cacheVars, whitelistVars, lifecycleVars, fallbackVars, signalVars, centerVars>>
besideNonce == <<windowVars, proxyVars, authVars, watchVars, cacheVars, whitelistVars, lifecycleVars, fallbackVars, signalVars, centerVars>>
besideAuth == <<windowVars, proxyVars, nonceVars, watchVars, cacheVars, whitelistVars, lifecycleVars, fallbackVars, signalVars, centerVars>>
besideWatch == <<windowVars, proxyVars, nonceVars, authVars, cacheVars, whitelistVars, lifecycleVars, fallbackVars, signalVars, centerVars>>
besideCache == <<windowVars, proxyVars, nonceVars, authVars, watchVars, whitelistVars, lifecycleVars, fallbackVars, signalVars, centerVars>>
besideWhitelist == <<windowVars, proxyVars, nonceVars, authVars, watchVars, cacheVars, lifecycleVars, fallbackVars, signalVars, centerVars>>
besideLifecycle == <<windowVars, proxyVars, nonceVars, authVars, watchVars, cacheVars, whitelistVars, fallbackVars, signalVars, centerVars>>
besideFallback == <<windowVars, proxyVars, nonceVars, authVars, watchVars, cacheVars, whitelistVars, lifecycleVars, signalVars, centerVars>>
besideSignal == <<windowVars, proxyVars, nonceVars, authVars, watchVars, cacheVars, whitelistVars, lifecycleVars, fallbackVars, centerVars>>
besideCenter == <<windowVars, proxyVars, nonceVars, authVars, watchVars, cacheVars, whitelistVars, lifecycleVars, fallbackVars, signalVars>>

routeVars == <<engineRoutes, mgrRoutes, trieRouter, routeCache, lastReq, dispSel, mgrSel, lookup>>

lookupVars == <<trieRouter, routeCache, lastReq, dispSel, mgrSel, lookup>>

pluginVars == <<availablePlugins, routeChains, registry, pluginCache>>

reloadVars ==
    <<reload, lastReload, pluginVars, inflight, hist, limiterVars, breakerVars, otherVars>>

vars == <<file, currentConfig, routeVars, reloadVars>>

(***************************************************************************)
(* Strings are sequences of one-byte strings.                              *)
(***************************************************************************)
Bytes == {"/", "a"}
Star == "*"

SeqsUpTo(S, n) == UNION {[1..k -> S] : k \in 1..n}

\* strings.HasPrefix
HasPrefix(s, p) == Len(p) <= Len(s) /\ SubSeq(s, 1, Len(p)) = p

\* strings.TrimPrefix
TrimPrefix(s, p) == IF HasPrefix(s, p) THEN SubSeq(s, Len(p) + 1, Len(s)) ELSE s

\* strings.Trim(s, "/")
RECURSIVE TrimLeft(_)
TrimLeft(s) == IF s # <<>> /\ Head(s) = "/" THEN TrimLeft(Tail(s)) ELSE s

RECURSIVE TrimRight(_)
TrimRight(s) ==
    IF s # <<>> /\ s[Len(s)] = "/" THEN TrimRight(SubSeq(s, 1, Len(s) - 1)) ELSE s

Trim(s) == TrimRight(TrimLeft(s))

\* strings.Split(s, "/"): the empty string yields one empty part
RECURSIVE SplitFrom(_, _)
SplitFrom(s, cur) ==
    IF s = <<>> THEN <<cur>>
    ELSE IF Head(s) = "/" THEN <<cur>> \o SplitFrom(Tail(s), <<>>)
    ELSE SplitFrom(Tail(s), Append(cur, Head(s)))

Split(s) == SplitFrom(s, <<>>)

\* the key of a trie node: strings.Split(strings.Trim(path, "/"), "/")
TrieKey(path) == Split(Trim(path))

\* regexp "^" + ReplaceAll(pattern, "*", ".*") + "$" matched against path
RECURSIVE WildcardMatchFrom(_, _)
WildcardMatchFrom(path, pat) ==
    IF pat = <<>> THEN path = <<>>
    ELSE IF Head(pat) = Star
         THEN \E k \in 0..Len(path) :
                 WildcardMatchFrom(SubSeq(path, k + 1, Len(path)), Tail(pat))
         ELSE /\ path # <<>>
              /\ Head(path) = Head(pat)
              /\ WildcardMatchFrom(Tail(path), Tail(pat))

\* an unanchored regular expression of literal bytes: it matches when it occurs
\* somewhere in the path; the empty expression matches every path
RegexMatch(path, pat) ==
    \E i \in 0..Len(path) :
        /\ i + Len(pat) <= Len(path)
        /\ SubSeq(path, i + 1, i + Len(pat)) = pat

(***************************************************************************)
(* Routes and requests.                                                    *)
(***************************************************************************)
MatchTypes == {"exact", "prefix", "regex", "wildcard"}

ReqPaths == {p \in SeqsUpTo(Bytes, MaxPathLen) : p[1] = "/"}

\* a match.path: literal bytes, and "*" in wildcard patterns
RoutePaths(type) ==
    {p \in SeqsUpTo(Bytes \cup {Star}, MaxPathLen) :
        /\ p[1] = "/"
        /\ (type # "wildcard" => \A i \in 1..Len(p) : p[i] # Star)}

\* number of non-path predicates a match declares
Declared(host, method, headers, query) ==
    (IF host # "" THEN 1 ELSE 0) + (IF method # "" THEN 1 ELSE 0)
    + (IF headers # {} THEN 1 ELSE 0) + (IF query # {} THEN 1 ELSE 0)

\* config.RouteMatch (src/internal/config/config.go): headers and query_params are
\* maps, here sets of <<key, value>>
RouteMatches ==
    {m \in [type : MatchTypes, path : SeqsUpTo(Bytes \cup {Star}, MaxPathLen),
            priority : 1..MaxPriority, host : {"", "h1"}, method : {"", "GET"},
            headers : {{}, {<<"X", "1">>}}, query : {{}, {<<"q", "1">>}}] :
        /\ m.path \in RoutePaths(m.type)
        /\ Declared(m.host, m.method, m.headers, m.query) <= MaxPreds}

RECURSIVE DeclaredIn(_)
DeclaredIn(ms) ==
    IF ms = <<>> THEN 0
    ELSE Declared(Head(ms).host, Head(ms).method, Head(ms).headers, Head(ms).query)
         + DeclaredIn(Tail(ms))

\* an HTTP request as the matchers see it; an absent header or query parameter reads ""
Mismatches(r) ==
    (IF r.host # "h1" THEN 1 ELSE 0) + (IF r.method # "GET" THEN 1 ELSE 0)
    + (IF r.headers["X"] # "1" THEN 1 ELSE 0) + (IF r.query["q"] # "1" THEN 1 ELSE 0)

Requests ==
    {r \in [path : ReqPaths, host : {"h1", "h2"}, method : {"GET", "POST"},
            headers : [{"X"} -> {"", "1"}], query : [{"q"} -> {"", "1"}]] :
        Mismatches(r) <= MaxPreds}

\* c.GetHeader(key) / c.Query(key)
GetHeader(req, key) == IF key \in DOMAIN req.headers THEN req.headers[key] ELSE ""
Query(req, key) == IF key \in DOMAIN req.query THEN req.query[key] ELSE ""

\* config.RouteConfig; here the i-th route of a file is named after its position,
\* forwards to an upstream and binds no plugin
RouteNames == <<"r1", "r2", "r3", "r4">>

MkRoute(i, m) == [name |-> RouteNames[i], match |-> m, target |-> "http://u", plugins |-> <<>>]

\* the route lists of a configuration file: 1..n routes in declaration order
RouteLists(n) ==
    UNION {{[i \in 1..k |-> MkRoute(i, ms[i])] :
              ms \in {x \in [1..k -> RouteMatches] : DeclaredIn(x) <= MaxPreds}} : k \in 1..n}

(***************************************************************************)
(* The dispatcher middleware of main.go.                                   *)
(***************************************************************************)
\* matchRoute(path, match): regex and wildcard fall into the default branch
matchRoute(path, match) ==
    CASE match.type = "exact" -> path = match.path
      [] match.type = "prefix" -> HasPrefix(path, match.path)
      [] OTHER -> path = match.path

\* sort.Slice(routes, priority descending): slices shorter than 12 elements are
\* sorted by insertion sort, which keeps equal elements in their order
RECURSIVE InsertByPriority(_, _)
InsertByPriority(sorted, r) ==
    IF sorted = <<>> THEN <<r>>
    ELSE IF Head(sorted).match.priority < r.match.priority
         THEN <<r>> \o sorted
         ELSE <<Head(sorted)>> \o InsertByPriority(Tail(sorted), r)

RECURSIVE SortByPriority(_)
SortByPriority(routes) ==
    IF routes = <<>> THEN <<>>
    ELSE InsertByPriority(SortByPriority(SubSeq(routes, 1, Len(routes) - 1)),
                          routes[Len(routes)])

\* the loop of the middleware: the first route of the sorted copy that matches
RECURSIVE FirstMatch(_, _)
FirstMatch(routes, path) ==
    IF routes = <<>> THEN <<>>
    ELSE IF matchRoute(path, Head(routes).match) THEN <<Head(routes)>>
    ELSE FirstMatch(Tail(routes), path)

(***************************************************************************)
(* router.Manager.                                                         *)
(***************************************************************************)
\* loadConfigFromManager's conversion to RouteDefinition: Regex is never set
ToRouteDefinition(route) ==
    [name |-> route.name, match |-> route.match, regex |-> <<>>,
     target |-> route.target, plugins |-> route.plugins]

ToRouterConfig(routes) == [i \in 1..Len(routes) |-> ToRouteDefinition(routes[i])]

\* Manager.matchWildcard
matchWildcard(path, pattern) == WildcardMatchFrom(path, pattern)

\* Manager.matchPath
matchPath(path, def) ==
    CASE def.match.type = "exact" -> path = def.match.path
      [] def.match.type = "prefix" -> HasPrefix(path, def.match.path)
      [] def.match.type = "regex" -> RegexMatch(path, def.regex)
      [] def.match.type = "wildcard" -> matchWildcard(path, def.match.path)
      [] OTHER -> FALSE

\* Manager.matchRule
matchRule(req, def) ==
    /\ matchPath(req.path, def)
    /\ ~(def.match.host # "" /\ req.host # def.match.host)
    /\ ~(def.match.method # "" /\ req.method # def.match.method)
    /\ \A kv \in def.match.headers : GetHeader(req, kv[1]) = kv[2]
    /\ \A kv \in def.match.query : Query(req, kv[1]) = kv[2]

\* TrieRouter.Insert for every route in order: a later route with the same key
\* replaces the earlier one
RECURSIVE BuildTrie(_, _)
BuildTrie(trie, defs) ==
    IF defs = <<>> THEN trie
    ELSE LET d == Head(defs)
             k == TrieKey(d.match.path)
         IN BuildTrie([x \in DOMAIN trie \cup {k} |-> IF x = k THEN d ELSE trie[x]],
                      Tail(defs))

EmptyMap == [x \in {} |-> x]

NewTrieRouter(defs) == BuildTrie(EmptyMap, defs)

\* TrieRouter.Match
TrieMatch(trie, path) ==
    IF TrieKey(path) \in DOMAIN trie THEN <<trie[TrieKey(path)]>> ELSE <<>>

\* the linear scan of MatchRoute from route i on: the index of bestMatch (0: nil),
\* replaced only by a route of strictly higher priority
RECURSIVE ScanFrom(_, _, _, _, _)
ScanFrom(defs, req, i, best, highestPriority) ==
    IF i > Len(defs) THEN best
    ELSE IF matchRule(req, defs[i]) /\ defs[i].match.priority > highestPriority
         THEN ScanFrom(defs, req, i + 1, i, defs[i].match.priority)
         ELSE ScanFrom(defs, req, i + 1, best, highestPriority)

BestIndex(defs, req) == ScanFrom(defs, req, 1, 0, -1)

\* bestMatch = &route takes the address of the loop variable: with per-iteration
\* loop variables (go >= 1.22 in go.mod) it is the best route, with one variable
\* per loop it is the route the loop ended on, the last of the list
LinearScan(defs, req) ==
    IF BestIndex(defs, req) = 0 THEN {<<>>}
    ELSE {<<defs[BestIndex(defs, req)]>>, <<defs[Len(defs)]>>}

\* getRegex is called by matchPath while MatchRoute holds m.mu.RLock; the pattern is
\* never in regexCache (only getRegex fills it), so it goes on to m.mu.Lock and
\* waits for its own read lock: evaluating a regex or wildcard rule never returns
Blocks(def) == def.match.type \in {"regex", "wildcard"}

\* the linear scan blocks when it reaches a regex or wildcard route
ScanBlocks(defs) == \E i \in 1..Len(defs) : Blocks(defs[i])

RouteCacheSize == 1024

\* RouteCache.Set: at capacity some entry is deleted first
CacheSet(cache, path, def) ==
    LET put(c) == [x \in DOMAIN c \cup {path} |-> IF x = path THEN def ELSE c[x]]
    IN IF Cardinality(DOMAIN cache) >= RouteCacheSize
       THEN {put([x \in DOMAIN cache \ {k} |-> cache[x]]) : k \in DOMAIN cache}
       ELSE {put(cache)}

\* the same when the manager has no cache (routeCache == nil)
CacheSetOpt(cacheOpt, path, def) ==
    IF cacheOpt = <<>> THEN {<<>>} ELSE {<<c>> : c \in CacheSet(cacheOpt[1], path, def)}

Outcome(sel, cacheOpt, via) == [sel |-> sel, cache |-> cacheOpt, via |-> via]

\* step 3 of MatchRoute: the linear scan
LinearOutcomes(defs, cacheOpt, req) ==
    IF ScanBlocks(defs) THEN {Outcome(<<>>, cacheOpt, "blocked")}
    ELSE IF BestIndex(defs, req) = 0 THEN {Outcome(<<>>, cacheOpt, "nomatch")}
    ELSE UNION {{Outcome(sel, c, "linear") : c \in CacheSetOpt(cacheOpt, req.path, sel[1])} :
                  sel \in LinearScan(defs, req)}

\* step 2 of MatchRoute: the trie
TrieOutcomes(defs, trieOpt, cacheOpt, req) ==
    LET found == IF trieOpt = <<>> THEN <<>> ELSE TrieMatch(trieOpt[1], req.path)
    IN IF found = <<>> THEN LinearOutcomes(defs, cacheOpt, req)
       ELSE IF Blocks(found[1]) THEN {Outcome(<<>>, cacheOpt, "blocked")}
       ELSE IF matchRule(req, found[1])
            THEN {Outcome(found, c, "trie") : c \in CacheSetOpt(cacheOpt, req.path, found[1])}
            ELSE LinearOutcomes(defs, cacheOpt, req)

\* Manager.MatchRoute: cache, then trie, then linear scan
MatchOutcomes(defs, trieOpt, cacheOpt, req) ==
    LET hit == IF cacheOpt # <<>> /\ req.path \in DOMAIN cacheOpt[1]
               THEN <<cacheOpt[1][req.path]>> ELSE <<>>
    IN IF hit = <<>> THEN TrieOutcomes(defs, trieOpt, cacheOpt, req)
       ELSE IF Blocks(hit[1]) THEN {Outcome(<<>>, cacheOpt, "blocked")}
       ELSE IF matchRule(req, hit[1]) THEN {Outcome(hit, cacheOpt, "cache")}
       ELSE TrieOutcomes(defs, trieOpt, cacheOpt, req)

(***************************************************************************)
(* Plugins and the plugin manager.                                         *)
(***************************************************************************)
\* the plugins of registerPlugins the model follows, one instance each
PluginNames == {"circuit_breaker", "rate_limit", "consistency", "cors", "interface_auth"}

\* core.NewBasePlugin(name, order, nil): Order() is fixed by the constructor
PluginOrder(name) ==
    CASE name = "circuit_breaker" -> 5
      [] name = "rate_limit" -> 10
      [] name = "consistency" -> 15
      [] name = "cors" -> 20
      [] OTHER -> 900

\* the plugins whose Init starts a cleanup goroutine
Janitored == {"circuit_breaker", "rate_limit"}

\* interface_auth.DefaultConfig() as far as the model needs it
DefaultConfig == [white_interfaces |-> {}]

\* New() of each plugin: one instance, not stopped, not yet initialised, no
\* cleanup goroutine running
New(name) ==
    [instance |-> name,
     config |-> IF name = "interface_auth" THEN DefaultConfig ELSE EmptyMap,
     stopped |-> FALSE,
     janitors |-> 0]

\* Manager.Register(New()) for every plugin: the registry after registerPlugins
Registered == [n \in PluginNames |-> New(n)]

\* Plugin.Init(config): the instance takes the new config; the rate limiter and
\* the circuit breaker also start one more cleanup goroutine (go p.cleanupLoop(),
\* go p.startCleanup()) and never end one
PluginInit(p, config) ==
    [p EXCEPT !.config = config,
              !.janitors = IF p.instance \in Janitored THEN @ + 1 ELSE @]

\* sort.Slice(configs, Order ascending), an insertion sort at these lengths
RECURSIVE InsertByOrder(_, _)
InsertByOrder(sorted, c) ==
    IF sorted = <<>> THEN <<c>>
    ELSE IF c.order < sorted[Len(sorted)].order
         THEN Append(InsertByOrder(SubSeq(sorted, 1, Len(sorted) - 1), c), sorted[Len(sorted)])
         ELSE Append(sorted, c)

RECURSIVE SortByOrder(_)
SortByOrder(configs) ==
    IF configs = <<>> THEN <<>>
    ELSE InsertByOrder(SortByOrder(SubSeq(configs, 1, Len(configs) - 1)),
                       configs[Len(configs)])

\* the loop of Manager.LoadAvailablePlugins from the i-th sorted config on: a
\* disabled plugin is skipped, an unregistered one ends the call with an error,
\* any other is initialised in place and entered in availablePlugins
RECURSIVE InitFrom(_, _, _, _)
InitFrom(configs, i, reg, available) ==
    IF i > Len(configs)
    THEN [err |-> FALSE, plugins |-> reg, available |-> available]
    ELSE IF ~configs[i].enabled
    THEN InitFrom(configs, i + 1, reg, available)
    ELSE IF configs[i].name \notin DOMAIN reg
    THEN [err |-> TRUE, plugins |-> reg, available |-> available]
    ELSE InitFrom(configs, i + 1,
                  [reg EXCEPT ![configs[i].name] = PluginInit(@, configs[i].config)],
                  available \cup {configs[i].name})

LoadAvailablePlugins(configs, reg, available) ==
    InitFrom(SortByOrder(configs), 1, reg, available)

\* Chain.AddPlugin: append, then sort.Slice by the plugins' own Order()
RECURSIVE AddPlugin(_, _)
AddPlugin(chain, p) ==
    IF chain = <<>> THEN <<p>>
    ELSE IF PluginOrder(p) < PluginOrder(chain[Len(chain)])
         THEN Append(AddPlugin(SubSeq(chain, 1, Len(chain) - 1), p), chain[Len(chain)])
         ELSE Append(chain, p)

\* the loop of Manager.LoadRoutePlugins: <<>> when a name is not available,
\* otherwise the chain built from the names
RECURSIVE BuildChain(_, _, _)
BuildChain(pluginNames, available, chain) ==
    IF pluginNames = <<>> THEN <<chain>>
    ELSE IF Head(pluginNames) \notin available THEN <<>>
    ELSE BuildChain(Tail(pluginNames), available, AddPlugin(chain, Head(pluginNames)))

\* Manager.LoadRoutePlugins(routeName, pluginNames)
LoadRoutePlugins(routeName, pluginNames, available, chains) ==
    LET built == BuildChain(pluginNames, available, <<>>)
    IN  IF built = <<>> THEN [err |-> TRUE, chains |-> chains]
        ELSE [err |-> FALSE,
              chains |-> [n \in DOMAIN chains \cup {routeName} |->
                             IF n = routeName THEN built[1] ELSE chains[n]]]

\* NewPluginCache(10 * time.Second) in NewManager
PluginCacheTTL == 10

\* the bytes of the model that occur in no UTF-8 encoding
InvalidUTF8 == {"xFE", "xFF"}

\* json.Marshal of a string: every byte that is not part of a valid UTF-8 encoding is
\* written as U+FFFD
JSONString(s) == [i \in 1..Len(s) |-> IF s[i] \in InvalidUTF8 THEN "uFFFD" ELSE s[i]]

\* a field of the requests that carry it
Attribute(ctx, name, none) == IF name \in DOMAIN ctx THEN ctx[name] ELSE none

\* GenerateCacheKey: the JSON of plugin name, path, method, host, raw query and the
\* three headers (an empty header is left out, which is what distinguishes it), hashed;
\* paths and queries are byte sequences, the other attributes are ASCII
GenerateCacheKey(ctx, pluginName) ==
    <<pluginName, JSONString(ctx.path), ctx.method, Attribute(ctx, "host", ""),
      JSONString(Attribute(ctx, "query", <<>>)), ctx.token, Attribute(ctx, "ctype", ""),
      Attribute(ctx, "agent", "")>>

\* CorsPlugin.Execute: an OPTIONS request is answered by handlePreflight (403
\* here, the requests carry no Origin) and aborted, any other passes
CorsExecute(ctx, reg) ==
    IF ctx.method = "OPTIONS"
    THEN [err |-> FALSE, aborted |-> TRUE, wrote |-> <<"403">>, result |-> <<>>]
    ELSE [err |-> FALSE, aborted |-> FALSE, wrote |-> <<>>, result |-> <<>>]

\* interface_auth Plugin.Execute: whitelisted paths pass; a request without a
\* bearer token is answered 401; otherwise the token goes to the external auth
\* service, and a refusal is answered 403; each answer aborts and returns an error
InterfaceAuthExecute(ctx, reg, authOk) ==
    IF ctx.path \in reg["interface_auth"].config.white_interfaces
    THEN [err |-> FALSE, aborted |-> FALSE, wrote |-> <<>>, result |-> <<"whitelist">>]
    ELSE IF ctx.token = ""
    THEN [err |-> TRUE, aborted |-> TRUE, wrote |-> <<"401">>, result |-> <<>>]
    ELSE IF ~authOk
    THEN [err |-> TRUE, aborted |-> TRUE, wrote |-> <<"403">>, result |-> <<>>]
    ELSE [err |-> FALSE, aborted |-> FALSE, wrote |-> <<>>, result |-> <<"success">>]

PluginExecute(p, ctx, reg, authOk) ==
    IF p = "cors" THEN CorsExecute(ctx, reg)
    ELSE InterfaceAuthExecute(ctx, reg, authOk)

\* PluginCache.Set; the entry also records the plugin config the result was
\* computed under
PluginCacheSet(cache, key, result, config) ==
    [k \in DOMAIN cache \cup {key} |->
        IF k = key THEN [result |-> result, config |-> config] ELSE cache[k]]

\* Chain.Execute: per plugin a cache hit skips the plugin, an error of the plugin
\* ends the chain, a result left in the context is cached
RECURSIVE ChainExecute(_, _, _, _, _)
ChainExecute(chain, ctx, reg, authOk, st) ==
    IF chain = <<>> THEN st
    ELSE LET p == Head(chain)
             key == GenerateCacheKey(ctx, p)
         IN  IF key \in DOMAIN st.cache
             THEN ChainExecute(Tail(chain), ctx, reg, authOk,
                               [st EXCEPT !.hits = @ \cup {<<p, st.cache[key].config>>}])
             ELSE LET r == PluginExecute(p, ctx, reg, authOk)
                      ran == [st EXCEPT !.ran = @ \cup {<<p, reg[p].config>>},
                                        !.trace = Append(@, [plugin |-> p, after |-> st.aborted]),
                                        !.written = @ \o r.wrote,
                                        !.aborted = @ \/ r.aborted]
                  IN  IF r.err THEN [ran EXCEPT !.err = TRUE]
                      ELSE ChainExecute(Tail(chain), ctx, reg, authOk,
                               IF r.result = <<>> THEN ran
                               ELSE [ran EXCEPT !.cache =
                                        PluginCacheSet(@, key, r.result[1], reg[p].config)])

\* Manager.Execute: the chain registered for the route name at this moment
ManagerExecute(routeName, ctx, chains, reg, cache, authOk) ==
    LET chain == IF routeName \in DOMAIN chains THEN chains[routeName] ELSE <<>>
    IN  [chain |-> chain] @@
        ChainExecute(chain, ctx, reg, authOk,
                     [ran |-> {}, hits |-> {}, trace |-> <<>>, written |-> <<>>,
                      cache |-> cache, aborted |-> FALSE, err |-> FALSE])

Idle == [pc |-> "idle", idx |-> 0]

(***************************************************************************)
(* Route lookups as steps of the program.                                  *)
(***************************************************************************)
\* config.Config as far as the model needs it
Config(available, routes) == [decodes |-> TRUE, available |-> available, routes |-> routes]

\* registerRoutes: the middleware works on a copy of cfg.Routes sorted by priority
registerRoutes(cfg) == SortByPriority(cfg.routes)

\* the middleware of registerRoutes up to the choice of matchedRoute
Dispatch(req) ==
    /\ lookup # "blocked"
    /\ lastReq' = <<req>>
    /\ dispSel' = FirstMatch(engineRoutes, req.path)
    /\ mgrSel' = <<>>
    /\ lookup' = "disp"
    /\ UNCHANGED <<file, currentConfig, engineRoutes, mgrRoutes, trieRouter, routeCache>>
    /\ UNCHANGED reloadVars

\* Manager.MatchRoute; the routes of these configurations bind no plugin, so
\* pluginManager.Execute finds no chain
MatchRoute(req) ==
    /\ lookup # "blocked"
    /\ \E o \in MatchOutcomes(mgrRoutes, trieRouter, routeCache, req) :
          /\ mgrSel' = o.sel
          /\ routeCache' = o.cache
          /\ lookup' = o.via
    /\ lastReq' = <<req>>
    /\ dispSel' = <<>>
    /\ UNCHANGED <<file, currentConfig, engineRoutes, mgrRoutes, trieRouter>>
    /\ UNCHANGED reloadVars

\* a goroutine slot with no request in it
IdleCbReq == [pc |-> "idle", seen |-> "", trial |-> FALSE]
NoVerdict ==
    [seen |-> "", was |-> "", became |-> "", reached |-> FALSE, age |-> 0, status |-> ""]
NoOutcome == [was |-> "", became |-> "", success |-> FALSE, failures |-> 0, requests |-> 0]
NoTrials == [admitted |-> 0, failed |-> 0, succeeded |-> 0]

\* RateLimitPlugin as New() leaves it: no bucket, no request, no sweep yet
NoLimiterTraffic ==
    /\ now = 0
    /\ buckets = EmptyMap
    /\ bucketHeap = <<>>
    /\ limitReqs = [g \in 1..MaxLimitReqs |-> [pc |-> "idle", bucket |-> 0, status |-> ""]]
    /\ lastSweep = -1
    /\ admits = 0
    /\ lastSeen = -1
    /\ epochAdmits = 0

\* CircuitBreakerPlugin as New() leaves it: no breaker, no request
NoBreakerTraffic ==
    /\ circuitBreakers = EmptyMap
    /\ cbReqs = [g \in 1..MaxCbReqs |-> IdleCbReq]
    /\ verdict = NoVerdict
    /\ outcome = NoOutcome
    /\ openedAt = -1
    /\ trials = NoTrials

\* a goroutine that is in neither RecordFailure nor RecordSuccess
IdleRecorder == [pc |-> "idle", kind |-> "", t |-> 0, current |-> 0, bucket |-> 0, val |-> 0]

\* the window of a breaker as NewWindow(10, 10 s) makes it at second 0, nothing recorded
NoWindowTraffic ==
    /\ win = [heap |-> [i \in 1..10 |-> [failures |-> 0, successes |-> 0, timestamp |-> 0]],
              slots |-> [i \in 1..10 |-> i], size |-> 10, windowSize |-> 10,
              current |-> 0]
    /\ recorders = [g \in 1..MaxRecorders |-> IdleRecorder]
    /\ recordsDone = [failures |-> 0, successes |-> 0]

\* the states of a plugin in the LifecycleManager
StateStopped == "Stopped"
StateStarting == "Starting"
StateRunning == "Running"
StateStopping == "Stopping"
StateFailed == "Failed"

\* the plugins registered with the LifecycleManager, with their dependencies
Dependencies == [circuit_breaker |-> {}, rate_limit |-> {"circuit_breaker"}]

\* the names the calls are made with; ip_whitelist is not registered
ManagedNames == DOMAIN Dependencies \cup {"ip_whitelist"}

\* a map[string]interface{}, and a value of another type
MapConfig(v) == [map |-> TRUE, v |-> v]
NotAMap == [map |-> FALSE, v |-> 0]
ManagedConfigs == {MapConfig(1), MapConfig(2), NotAMap}

NoCall == [pc |-> "idle"]

\* NewLifecycleManager, then Register of the two plugins as New() made them: stopChan
\* open, no cleanup goroutine
NoLifecycleCalls ==
    [plugins |-> [n \in DOMAIN Dependencies |-> [State |-> StateStopped, Config |-> MapConfig(1)]],
     instances |-> [n \in DOMAIN Dependencies |-> [closed |-> FALSE, janitors |-> 0]],
     calls |-> [g \in 1..MaxCallers |-> NoCall],
     panicked |-> FALSE]

\* NewConfigCenter(MaxVersions): no current config (<<>>, otherwise <<config>>), no
\* version, and the clock
NoCenterCalls == [currentConfig |-> <<>>, versions |-> <<>>, UnixNano |-> 0, last |-> <<>>]

\* NewConfigManager, WatchConfig and StartReloadWorker have run: both goroutines wait
\* in their select, reloadChan is empty, stopChan is open, the file is as it was loaded
NoWatchTraffic ==
    [events |-> 0, watcher |-> "select", reloadChan |-> 0, stopped |-> FALSE,
     worker |-> "select", writes |-> 0, lastStart |-> 0, dropped |-> 0]

NoOtherTraffic ==
    /\ NoWindowTraffic
    /\ served = <<>>
    /\ usedNonces = EmptyMap
    /\ nonceLog = [stored |-> {}, last |-> <<>>]
    /\ nonceReqs = [g \in 1..MaxNonceReqs |-> [pc |-> "idle"]]
    /\ authLog = <<>>
    /\ watch = NoWatchTraffic
    /\ center = NoCenterCalls
    /\ parked = [who |-> "signal", reload |-> Idle]
    /\ fallback = [errors |-> 0, lastError |-> 0, isDegraded |-> FALSE, readers |-> {},
                   calls |-> [g \in 1..MaxFallbackCallers |-> [pc |-> "idle"]]]
    /\ lifecycle = NoLifecycleCalls
    /\ ipWhitelist = {}
    /\ ipLog = [inits |-> 0, list |-> {}, last |-> <<>>]
    /\ timedCache = EmptyMap
    /\ cacheLog = <<>>

\* registerPlugins has run, no configuration declares a plugin, no request and no
\* reload is under way
NoPluginsLoaded ==
    /\ reload = Idle
    /\ lastReload = "none"
    /\ availablePlugins = {}
    /\ routeChains = EmptyMap
    /\ registry = Registered
    /\ pluginCache = EmptyMap
    /\ inflight = <<>>
    /\ hist = <<>>
    /\ NoLimiterTraffic
    /\ NoBreakerTraffic
    /\ NoOtherTraffic

\* the program as main.go wires it: ConfigManager.LoadConfig, NewManagerFromConfig
\* (no trie, no cache), buildEngine
InitMatch ==
    /\ \E rs \in RouteLists(MaxRoutes) : currentConfig = Config(<<>>, rs)
    /\ file = currentConfig
    /\ engineRoutes = registerRoutes(currentConfig)
    /\ mgrRoutes = ToRouterConfig(currentConfig.routes)
    /\ trieRouter = <<>>
    /\ routeCache = <<>>
    /\ lastReq = <<>>
    /\ dispSel = <<>>
    /\ mgrSel = <<>>
    /\ lookup = "none"
    /\ NoPluginsLoaded

NextMatch == \E req \in Requests : Dispatch(req) \/ MatchRoute(req)

SpecMatch == InitMatch /\ [][NextMatch]_vars

(***************************************************************************)
(* router.Manager under loads and reloads.                                 *)
(***************************************************************************)
MaxMgrRoutes == 1    \* routes per configuration in the manager specification

\* the configurations the manager is loaded with: exact and prefix routes of one
\* priority that declare no non-path predicate
MgrRouteLists ==
    {rs \in RouteLists(MaxMgrRoutes) :
        \A i \in 1..Len(rs) :
            /\ rs[i].match.type \in {"exact", "prefix"}
            /\ rs[i].match.priority = 1
            /\ DeclaredIn(<<rs[i].match>>) = 0}

\* Manager.loadConfig (NewManager, and watchConfig on every write of the file):
\* config, trie and cache are replaced together under m.mu; watchConfig runs only
\* in a manager made by NewManager
loadConfig(rs) ==
    /\ lookup # "blocked"
    /\ trieRouter # <<>>
    /\ mgrRoutes' = ToRouterConfig(rs)
    /\ trieRouter' = <<NewTrieRouter(ToRouterConfig(rs))>>
    /\ routeCache' = <<EmptyMap>>
    /\ UNCHANGED <<file, currentConfig, engineRoutes, lastReq, dispSel, mgrSel, lookup>>
    /\ UNCHANGED reloadVars

\* Manager.ReloadFromConfig -> loadConfigFromManager: only m.config is replaced
ReloadFromConfig(rs) ==
    /\ lookup # "blocked"
    /\ mgrRoutes' = ToRouterConfig(rs)
    /\ UNCHANGED <<engineRoutes, lookupVars>>

\* NewManager(configPath) or NewManagerFromConfig(configManager)
InitMgr ==
    /\ \E rs \in MgrRouteLists :
          /\ currentConfig = Config(<<>>, rs)
          /\ mgrRoutes = ToRouterConfig(rs)
          /\ \/ trieRouter = <<NewTrieRouter(ToRouterConfig(rs))>> /\ routeCache = <<EmptyMap>>
             \/ trieRouter = <<>> /\ routeCache = <<>>
    /\ file = currentConfig
    /\ engineRoutes = registerRoutes(currentConfig)
    /\ lastReq = <<>>
    /\ dispSel = <<>>
    /\ mgrSel = <<>>
    /\ lookup = "none"
    /\ NoPluginsLoaded

\* these routes declare no non-path predicate: requests differ in their path only
MgrRequests == {r \in Requests : Mismatches(r) = 0}

NextMgr ==
    \/ \E rs \in MgrRouteLists :
          \/ loadConfig(rs)
          \/ ReloadFromConfig(rs) /\ UNCHANGED <<file, currentConfig, reloadVars>>
    \/ \E req \in MgrRequests : MatchRoute(req)

SpecMgr == InitMgr /\ [][NextMgr]_vars

(***************************************************************************)
(* Hot reload: ConfigManager.ReloadConfig, the reload hook of main.go and  *)
(* the requests served meanwhile.                                          *)
(***************************************************************************)
\* config.PluginConfig
PluginConfig(name, enabled, order, config) ==
    [name |-> name, enabled |-> enabled, order |-> order, config |-> config]

\* config.RouteMatch without host, method, header or query predicates
PathMatch(type, path, priority) ==
    [type |-> type, path |-> path, priority |-> priority,
     host |-> "", method |-> "", headers |-> {}, query |-> {}]

\* config.RouteConfig
RouteConfig(name, match, target, plugins) ==
    [name |-> name, match |-> match, target |-> target, plugins |-> plugins]

Auth1 == [white_interfaces |-> {}]
Auth2 == [white_interfaces |-> {<<"/", "a">>}]
Cors1 == [allowed_origins |-> {"*"}]

\* interface_auth and cors enabled; r1 serves "/" behind interface_auth,
\* r2 serves "/a" behind both (listed against their execution order)
ConfigA ==
    Config(<<PluginConfig("interface_auth", TRUE, 1, Auth1),
             PluginConfig("cors", TRUE, 2, Cors1)>>,
           <<RouteConfig("r1", PathMatch("prefix", <<"/">>, 1), "http://u1",
                         <<"interface_auth">>),
             RouteConfig("r2", PathMatch("exact", <<"/", "a">>, 2), "http://u2",
                         <<"interface_auth", "cors">>)>>)

\* interface_auth reconfigured, cors disabled; r1 binds no plugin and
\* moves to another upstream, r2 is gone
ConfigB ==
    Config(<<PluginConfig("interface_auth", TRUE, 1, Auth2),
             PluginConfig("cors", FALSE, 2, Cors1)>>,
           <<RouteConfig("r1", PathMatch("prefix", <<"/">>, 1), "http://u3", <<>>)>>)

\* cors disabled although r1 now lists it
ConfigC ==
    Config(<<PluginConfig("interface_auth", TRUE, 1, Auth1),
             PluginConfig("cors", FALSE, 2, Cors1)>>,
           <<RouteConfig("r1", PathMatch("prefix", <<"/">>, 1), "http://u1",
                         <<"cors">>)>>)

\* an enabled plugin no constructor is registered for, ordered after interface_auth
ConfigD ==
    Config(<<PluginConfig("interface_auth", TRUE, 1, Auth2),
             PluginConfig("ghost", TRUE, 2, EmptyMap)>>,
           <<RouteConfig("r1", PathMatch("prefix", <<"/">>, 1), "http://u3", <<>>)>>)

\* decodes, but ValidateConfig refuses the empty route list
ConfigE == Config(<<>>, <<>>)

\* not YAML
Undecodable == [decodes |-> FALSE, available |-> <<>>, routes |-> <<>>]

Files == {ConfigA, ConfigB, ConfigC, ConfigD, ConfigE, Undecodable}

\* ValidateConfig on the fields a file of the model has: plugin names non-empty and
\* orders non-negative, at least one route, every route with a name, a path, a
\* target and a non-negative priority
ValidateConfig(cfg) ==
    /\ \A i \in 1..Len(cfg.available) :
          cfg.available[i].name # "" /\ cfg.available[i].order >= 0
    /\ Len(cfg.routes) > 0
    /\ \A i \in 1..Len(cfg.routes) :
          /\ cfg.routes[i].name # ""
          /\ cfg.routes[i].match.path # <<>>
          /\ cfg.routes[i].target # ""
          /\ cfg.routes[i].match.priority >= 0

\* ConfigManager.TestConfig and the reading half of LoadConfig: read, decode, validate
TestConfig(f) == f.decodes /\ ValidateConfig(f)

\* main.go loadRoutePlugins from the i-th route on: routes with an empty list are
\* passed over, the first failing LoadRoutePlugins ends the loop
RECURSIVE LoadRoutePluginsFrom(_, _, _, _)
LoadRoutePluginsFrom(routes, i, available, chains) ==
    IF i > Len(routes) THEN [err |-> FALSE, chains |-> chains]
    ELSE IF routes[i].plugins = <<>>
    THEN LoadRoutePluginsFrom(routes, i + 1, available, chains)
    ELSE LET r == LoadRoutePlugins(routes[i].name, routes[i].plugins, available, chains)
         IN  IF r.err THEN r
             ELSE LoadRoutePluginsFrom(routes, i + 1, available, r.chains)

\* startServer before the listener is up: any error is fatal
Startup(f) ==
    LET a == LoadAvailablePlugins(f.available, Registered, {})
        c == LoadRoutePluginsFrom(f.routes, 1, a.available, EmptyMap)
    IN  [ok |-> TestConfig(f) /\ ~a.err /\ ~c.err,
         plugins |-> a.plugins, available |-> a.available, chains |-> c.chains]

\* the requests of this part: GET of a path, always with the same bearer token
ReloadRequests == [path : {<<"/">>, <<"/", "a">>}, method : {"GET"}, token : {"t"}]

\* what a reload is compared with afterwards
Snapshot ==
    [config |-> currentConfig, engine |-> engineRoutes, chains |-> routeChains,
     plugins |-> registry]

\* when a reload begins, a request between its match and Manager.Execute is
\* marked as overtaken and the record of a finished request is dropped
Overtaken ==
    IF inflight # <<>> /\ inflight[1].pc = "matched"
    THEN <<[inflight[1] EXCEPT !.overlap = TRUE]>>
    ELSE <<>>

\* ReloadConfig, first step: the file has been written as f (or left as it was)
\* and the watcher, the signal handler or the reload API calls ReloadConfig, which
\* begins with TestConfig(cm.configPath)
TestReloadedConfig(f) ==
    /\ reload.pc = "idle"
    /\ file' = f
    /\ hist' = <<Snapshot>>
    /\ inflight' = Overtaken
    /\ IF TestConfig(f)
       THEN reload' = [pc |-> "load", idx |-> 0] /\ UNCHANGED lastReload
       ELSE lastReload' = "failed" /\ UNCHANGED reload
    /\ UNCHANGED <<currentConfig, routeVars, pluginVars>>

ReloadConfig(f) ==
    /\ TestReloadedConfig(f)
    /\ UNCHANGED <<limiterVars, breakerVars, otherVars>>

\* ReloadConfig, second step: LoadConfig reads the file again and, when it is
\* still good, replaces currentConfig
LoadConfig ==
    /\ reload.pc = "load"
    /\ IF TestConfig(file)
       THEN /\ currentConfig' = file
            /\ reload' = [pc |-> "router", idx |-> 0]
            /\ UNCHANGED lastReload
       ELSE /\ lastReload' = "failed"
            /\ reload' = Idle
            /\ UNCHANGED currentConfig
    /\ UNCHANGED <<file, routeVars, pluginVars, inflight, hist>>
    /\ UNCHANGED <<limiterVars, breakerVars, otherVars>>

\* the reload hook, first call: routerManager.ReloadFromConfig
HookReloadFromConfig ==
    /\ reload.pc = "router"
    /\ ReloadFromConfig(currentConfig.routes)
    /\ reload' = [pc |-> "available", idx |-> 0]
    /\ UNCHANGED <<file, currentConfig, lastReload, pluginVars, inflight, hist>>
    /\ UNCHANGED <<limiterVars, breakerVars, otherVars>>

\* the reload hook, second call: loadAvailablePlugins(cfg)
loadAvailablePlugins ==
    /\ reload.pc = "available"
    /\ LET r == LoadAvailablePlugins(currentConfig.available, registry, availablePlugins)
       IN  /\ registry' = r.plugins
           /\ availablePlugins' = r.available
           /\ IF r.err
              THEN lastReload' = "failed" /\ reload' = Idle
              ELSE reload' = [pc |-> "routePlugins", idx |-> 1] /\ UNCHANGED lastReload
    /\ UNCHANGED <<file, currentConfig, routeVars, routeChains, pluginCache,
                   inflight, hist>>
    /\ UNCHANGED <<limiterVars, breakerVars, otherVars>>

\* the reload hook, third call: loadRoutePlugins(cfg), one route per step since
\* the manager's lock is released between two LoadRoutePlugins calls
loadRoutePlugins ==
    /\ reload.pc = "routePlugins"
    /\ IF reload.idx > Len(currentConfig.routes)
       THEN reload' = [pc |-> "routes", idx |-> 0] /\ UNCHANGED <<lastReload, routeChains>>
       ELSE LET route == currentConfig.routes[reload.idx]
                r == LoadRoutePlugins(route.name, route.plugins, availablePlugins, routeChains)
            IN  IF route.plugins = <<>>
                THEN /\ reload' = [reload EXCEPT !.idx = @ + 1]
                     /\ UNCHANGED <<lastReload, routeChains>>
                ELSE IF r.err
                THEN lastReload' = "failed" /\ reload' = Idle /\ UNCHANGED routeChains
                ELSE /\ routeChains' = r.chains
                     /\ reload' = [reload EXCEPT !.idx = @ + 1]
                     /\ UNCHANGED lastReload
    /\ UNCHANGED <<file, currentConfig, routeVars, availablePlugins, registry,
                   pluginCache, inflight, hist>>
    /\ UNCHANGED <<limiterVars, breakerVars, otherVars>>

\* the reload hook, last call: reloadRoutes builds a new engine from GetConfig()
\* and makes it the server's handler; ReloadConfig returns nil
reloadRoutes ==
    /\ reload.pc = "routes"
    /\ engineRoutes' = registerRoutes(currentConfig)
    /\ reload' = Idle
    /\ lastReload' = "ok"
    /\ UNCHANGED <<file, currentConfig, mgrRoutes, lookupVars, pluginVars, inflight, hist>>
    /\ UNCHANGED <<limiterVars, breakerVars, otherVars>>

\* the middleware of registerRoutes up to c.Set("target", ...), in the engine that
\* is the server's handler when the request arrives
ReqStart(req) ==
    /\ \A i \in DOMAIN inflight : inflight[i].pc = "done"
    /\ LET m == FirstMatch(engineRoutes, req.path)
       IN  inflight' =
             <<[pc |-> IF m = <<>> THEN "done" ELSE "matched",
                path |-> req.path, method |-> req.method, token |-> req.token,
                route |-> m,
                chainAtMatch |-> IF m # <<>> /\ m[1].name \in DOMAIN routeChains
                                 THEN routeChains[m[1].name] ELSE <<>>,
                quiet |-> reload.pc = "idle",
                overlap |-> FALSE,
                chain |-> <<>>, ran |-> {}, hits |-> {}, trace |-> <<>>,
                written |-> IF m = <<>> THEN <<"404">> ELSE <<>>,
                aborted |-> FALSE, err |-> FALSE, target |-> ""]>>
    /\ UNCHANGED <<file, currentConfig, routeVars, reload, lastReload, pluginVars, hist>>
    /\ UNCHANGED <<limiterVars, breakerVars, otherVars>>

\* the rest of the middleware: pluginManager.Execute(c, matchedRoute.Name), then
\* c.JSON(500) on an error, nothing more when the context is aborted, otherwise
\* the response from matchedRoute's target
ReqExecute(authOk) ==
    /\ inflight # <<>> /\ inflight[1].pc = "matched"
    /\ LET q == inflight[1]
           route == q.route[1]
           ctx == [path |-> q.path, method |-> q.method, token |-> q.token,
                   target |-> route.target]
           r == ManagerExecute(route.name, ctx, routeChains, registry, pluginCache, authOk)
       IN  /\ pluginCache' = r.cache
           /\ inflight' = <<[q EXCEPT !.pc = "done", !.chain = r.chain, !.ran = r.ran,
                                      !.hits = r.hits, !.err = r.err,
                                      !.trace = r.trace, !.aborted = r.aborted,
                                      !.written = IF r.err THEN Append(r.written, "500")
                                                  ELSE IF r.aborted THEN r.written
                                                  ELSE Append(r.written, "proxy"),
                                      !.target = IF r.err \/ r.aborted THEN ""
                                                 ELSE route.target]>>
    /\ UNCHANGED <<file, currentConfig, routeVars, reload, lastReload, availablePlugins,
                   routeChains, registry, hist>>
    /\ UNCHANGED <<limiterVars, breakerVars, otherVars>>

\* PluginCache: an entry older than the TTL is no longer returned
CacheExpire(key) ==
    /\ key \in DOMAIN pluginCache
    /\ pluginCache' = [k \in DOMAIN pluginCache \ {key} |-> pluginCache[k]]
    /\ UNCHANGED <<file, currentConfig, routeVars, reload, lastReload, availablePlugins,
                   routeChains, registry, inflight, hist>>
    /\ UNCHANGED <<limiterVars, breakerVars, otherVars>>

\* the gateway is up: startServer has loaded a file without a fatal error
InitReload ==
    /\ file \in {f \in Files : Startup(f).ok}
    /\ currentConfig = file
    /\ engineRoutes = registerRoutes(file)
    /\ mgrRoutes = ToRouterConfig(file.routes)
    /\ trieRouter = <<>>
    /\ routeCache = <<>>
    /\ lastReq = <<>>
    /\ dispSel = <<>>
    /\ mgrSel = <<>>
    /\ lookup = "none"
    /\ reload = Idle
    /\ lastReload = "none"
    /\ availablePlugins = Startup(file).available
    /\ routeChains = Startup(file).chains
    /\ registry = Startup(file).plugins
    /\ pluginCache = EmptyMap
    /\ inflight = <<>>
    /\ hist = <<>>
    /\ NoLimiterTraffic
    /\ NoBreakerTraffic
    /\ NoOtherTraffic

NextReload ==
    \/ \E f \in Files : ReloadConfig(f)
    \/ LoadConfig
    \/ HookReloadFromConfig
    \/ loadAvailablePlugins
    \/ loadRoutePlugins
    \/ reloadRoutes
    \/ \E req \in ReloadRequests : ReqStart(req)
    \/ \E authOk \in BOOLEAN : ReqExecute(authOk)
    \/ \E key \in DOMAIN pluginCache : CacheExpire(key)

SpecReload == InitReload /\ [][NextReload]_vars

(***************************************************************************)
(* Reloads of configurations that enable the rate limiter and the circuit  *)
(* breaker.                                                                *)
(***************************************************************************)
MaxJanitors == 3     \* no reload begins once a plugin has this many cleanup goroutines

\* a configuration value with the Go type the decoder gave it
Float64(v) == [type |-> "float64", v |-> v]
GoInt(v) == [type |-> "int", v |-> v]

Breaker1 == [failure_threshold |-> GoInt(50)]
Breaker2 == [failure_threshold |-> GoInt(100)]
Limit1 == [requests_per_second |-> Float64(1), burst |-> GoInt(2)]

\* both plugins enabled, r1 behind the rate limiter
ConfigL ==
    Config(<<PluginConfig("circuit_breaker", TRUE, 1, Breaker1),
             PluginConfig("rate_limit", TRUE, 2, Limit1)>>,
           <<RouteConfig("r1", PathMatch("prefix", <<"/">>, 1), "http://u1",
                         <<"rate_limit">>)>>)

\* the breaker reconfigured
ConfigM ==
    Config(<<PluginConfig("circuit_breaker", TRUE, 1, Breaker2),
             PluginConfig("rate_limit", TRUE, 2, Limit1)>>,
           <<RouteConfig("r1", PathMatch("prefix", <<"/">>, 1), "http://u1",
                         <<"rate_limit">>)>>)

\* the rate limiter disabled and unbound
ConfigN ==
    Config(<<PluginConfig("circuit_breaker", TRUE, 1, Breaker1),
             PluginConfig("rate_limit", FALSE, 2, Limit1)>>,
           <<RouteConfig("r1", PathMatch("prefix", <<"/">>, 1), "http://u1", <<>>)>>)

LifecycleFiles == {ConfigL, ConfigM, ConfigN}

InitLifecycle ==
    /\ file \in LifecycleFiles
    /\ currentConfig = file
    /\ engineRoutes = registerRoutes(file)
    /\ mgrRoutes = ToRouterConfig(file.routes)
    /\ trieRouter = <<>>
    /\ routeCache = <<>>
    /\ lastReq = <<>>
    /\ dispSel = <<>>
    /\ mgrSel = <<>>
    /\ lookup = "none"
    /\ reload = Idle
    /\ lastReload = "none"
    /\ availablePlugins = Startup(file).available
    /\ routeChains = Startup(file).chains
    /\ registry = Startup(file).plugins
    /\ pluginCache = EmptyMap
    /\ inflight = <<>>
    /\ hist = <<>>
    /\ NoLimiterTraffic
    /\ NoBreakerTraffic
    /\ NoOtherTraffic

NextLifecycle ==
    \/ \E f \in LifecycleFiles :
          /\ \A n \in PluginNames : registry[n].janitors < MaxJanitors
          /\ ReloadConfig(f)
    \/ LoadConfig
    \/ HookReloadFromConfig
    \/ loadAvailablePlugins
    \/ loadRoutePlugins
    \/ reloadRoutes

SpecLifecycle == InitLifecycle /\ [][NextLifecycle]_vars

(***************************************************************************)
(* Requests through the chains of a loaded configuration, no reload.       *)
(***************************************************************************)
\* GET and OPTIONS requests, with and without a bearer token
ChainRequests == [path : {<<"/">>, <<"/", "a">>}, method : {"GET", "OPTIONS"}, token : {"", "t"}]

InitChain == InitReload

NextChain ==
    \/ \E req \in ChainRequests : ReqStart(req)
    \/ \E authOk \in BOOLEAN : ReqExecute(authOk)
    \/ \E key \in DOMAIN pluginCache : CacheExpire(key)

SpecChain == InitChain /\ [][NextChain]_vars

(***************************************************************************)
(* The rate limiter: token buckets, requests and the janitor.              *)
(***************************************************************************)
DefaultRate == 10       \* requestsPerSecond := 10.0
DefaultBurst == 20      \* burst := 20
CleanupAge == 300       \* 5*time.Minute, the ticker's period and the eviction age

\* no refill, one token
Limit0 == [requests_per_second |-> Float64(0), burst |-> GoInt(1)]
\* requests_per_second written as an integer
Limit2 == [requests_per_second |-> GoInt(1), burst |-> GoInt(1)]

\* a file with the rate limiter enabled under the given configuration and bound to r1
LimiterFile(limit) ==
    Config(<<PluginConfig("rate_limit", TRUE, 1, limit)>>,
           <<RouteConfig("r1", PathMatch("prefix", <<"/">>, 1), "http://u1",
                         <<"rate_limit">>)>>)

LimiterFiles == {LimiterFile(Limit1), LimiterFile(Limit0), LimiterFile(Limit2)}

\* the request every goroutine of the limiter specification serves
LimiterRequest == [path |-> <<"/">>, method |-> "GET", token |-> "t", ip |-> <<"c">>]

\* p.config[name].(type): the value and whether the assertion held
TypeAssert(config, name, type) ==
    IF name \in DOMAIN config /\ config[name].type = type
    THEN [ok |-> TRUE, v |-> config[name].v]
    ELSE [ok |-> FALSE, v |-> 0]

getLimitKey(ctx, config) ==
    LET ipBased == TypeAssert(config, "ip_based", "bool")
    IN  IF ipBased.ok /\ ipBased.v = TRUE THEN ctx.ip ELSE ctx.path

\* the TokenBucket getBucket makes when the key has none
NewTokenBucket(config, t) ==
    LET rps == TypeAssert(config, "requests_per_second", "float64")
        b == TypeAssert(config, "burst", "int")
        requestsPerSecond == IF rps.ok THEN rps.v ELSE DefaultRate
        burst == IF b.ok THEN b.v ELSE DefaultBurst
    IN  [rate |-> requestsPerSecond, capacity |-> burst, tokens |-> burst,
         lastRefill |-> t]

Min(a, b) == IF a < b THEN a ELSE b

\* TokenBucket.allow at time t: the bucket afterwards and the verdict
allow(b, t) ==
    LET elapsed == t - b.lastRefill
        tokensToAdd == elapsed * b.rate
        refilled == IF tokensToAdd > 0
                    THEN [b EXCEPT !.tokens = Min(b.capacity, b.tokens + tokensToAdd),
                                   !.lastRefill = t]
                    ELSE b
    IN  IF refilled.tokens > 0
        THEN [bucket |-> [refilled EXCEPT !.tokens = @ - 1], ok |-> TRUE]
        ELSE [bucket |-> refilled, ok |-> FALSE]

\* Execute up to the return of getBucket: the key's bucket, made if absent
GetBucket(g) ==
    LET config == registry["rate_limit"].config
        key == getLimitKey(LimiterRequest, config)
        found == key \in DOMAIN buckets
    IN  /\ limitReqs[g].pc = "idle"
        /\ \E c \in DOMAIN routeChains : \E i \in DOMAIN routeChains[c] :
               routeChains[c][i] = "rate_limit"
        /\ found \/ Len(bucketHeap) < MaxBuckets
        /\ bucketHeap' = IF found THEN bucketHeap
                         ELSE Append(bucketHeap, NewTokenBucket(config, now))
        /\ buckets' = IF found THEN buckets
                      ELSE [k \in DOMAIN buckets \cup {key} |-> IF k = key
                                THEN Len(bucketHeap) + 1 ELSE buckets[k]]
        /\ limitReqs' = [limitReqs EXCEPT ![g] =
                [pc |-> "allow", bucket |-> IF found THEN buckets[key]
                                            ELSE Len(bucketHeap) + 1,
                 status |-> ""]]
        /\ epochAdmits' = IF lastSeen >= 0 /\ now - lastSeen > CleanupAge
                          THEN 0 ELSE epochAdmits
        /\ lastSeen' = now
        /\ UNCHANGED <<now, lastSweep, admits>>
        /\ UNCHANGED <<file, currentConfig, routeVars>>
        /\ UNCHANGED <<reload, lastReload, pluginVars, inflight, hist, breakerVars, otherVars>>

\* the rest of Execute: bucket.allow() on the bucket the request holds, 429 when refused
Allow(g) ==
    /\ limitReqs[g].pc = "allow"
    /\ LET r == allow(bucketHeap[limitReqs[g].bucket], now)
       IN  /\ bucketHeap' = [bucketHeap EXCEPT ![limitReqs[g].bucket] = r.bucket]
           /\ limitReqs' = [limitReqs EXCEPT ![g] =
                   [pc |-> "idle", bucket |-> 0,
                    status |-> IF r.ok THEN "next" ELSE "429"]]
           /\ admits' = IF r.ok THEN admits + 1 ELSE admits
           /\ epochAdmits' = IF r.ok THEN epochAdmits + 1 ELSE epochAdmits
    /\ UNCHANGED <<now, buckets, lastSweep, lastSeen>>
    /\ UNCHANGED <<file, currentConfig, routeVars>>
    /\ UNCHANGED <<reload, lastReload, pluginVars, inflight, hist, breakerVars, otherVars>>

\* a tick of the cleanup ticker: every bucket not refilled for over 5 minutes is deleted
cleanupBuckets ==
    /\ lastSweep >= 0 => now - lastSweep >= CleanupAge
    /\ buckets' = [k \in {x \in DOMAIN buckets :
                            ~(now - bucketHeap[buckets[x]].lastRefill > CleanupAge)}
                     |-> buckets[k]]
    /\ lastSweep' = now
    /\ UNCHANGED <<now, bucketHeap, limitReqs, admits, lastSeen, epochAdmits>>
    /\ UNCHANGED <<file, currentConfig, routeVars>>
    /\ UNCHANGED <<reload, lastReload, pluginVars, inflight, hist, breakerVars, otherVars>>

\* time passes while no request is inside the limiter
Tick(d) ==
    /\ \A g \in DOMAIN limitReqs : limitReqs[g].pc = "idle"
    /\ now + d <= MaxTime
    /\ d = 1 => now % CleanupAge < MaxShort
    /\ now' = now + d
    /\ admits' = 0
    /\ UNCHANGED <<buckets, bucketHeap, limitReqs, lastSweep, lastSeen, epochAdmits>>
    /\ UNCHANGED <<file, currentConfig, routeVars>>
    /\ UNCHANGED <<reload, lastReload, pluginVars, inflight, hist, breakerVars, otherVars>>

InitLimiter ==
    /\ file \in LimiterFiles
    /\ currentConfig = file
    /\ engineRoutes = registerRoutes(file)
    /\ mgrRoutes = ToRouterConfig(file.routes)
    /\ trieRouter = <<>>
    /\ routeCache = <<>>
    /\ lastReq = <<>>
    /\ dispSel = <<>>
    /\ mgrSel = <<>>
    /\ lookup = "none"
    /\ reload = Idle
    /\ lastReload = "none"
    /\ availablePlugins = Startup(file).available
    /\ routeChains = Startup(file).chains
    /\ registry = Startup(file).plugins
    /\ pluginCache = EmptyMap
    /\ inflight = <<>>
    /\ hist = <<>>
    /\ NoLimiterTraffic
    /\ NoBreakerTraffic
    /\ NoOtherTraffic

NextLimiter ==
    \/ \E g \in 1..MaxLimitReqs : GetBucket(g)
    \/ \E g \in 1..MaxLimitReqs : Allow(g)
    \/ cleanupBuckets
    \/ \E d \in {1, CleanupAge} : Tick(d)

SpecLimiter == InitLimiter /\ [][NextLimiter]_vars

(***************************************************************************)
(* The circuit breaker: sliding window, state machine and requests.        *)
(***************************************************************************)
StateClosed == "closed"
StateOpen == "open"
StateHalfOpen == "half_open"

DefaultFailureThreshold == 5
DefaultRecoveryTimeout == 30
DefaultHalfOpenQuota == 2
DefaultSuccessThreshold == 3
DefaultWindowSize == 10
WindowBuckets == 10     \* NewWindow(10, ...)

BreakerConfig(ft, rt, hoq, st, ws) ==
    [failure_threshold |-> GoInt(ft), recovery_timeout |-> GoInt(rt),
     half_open_quota |-> GoInt(hoq), success_threshold |-> GoInt(st),
     window_size |-> GoInt(ws)]

\* buckets of one second, recovery after two
Breaker3 == BreakerConfig(60, 2, 1, 50, 10)
\* buckets of three seconds, recovery after two
Breaker4 == BreakerConfig(60, 2, 1, 50, 30)

\* a file with the circuit breaker enabled under the given configuration, bound to r1
BreakerFile(breaker) ==
    Config(<<PluginConfig("circuit_breaker", TRUE, 1, breaker)>>,
           <<RouteConfig("r1", PathMatch("prefix", <<"/">>, 1), "http://u1",
                         <<"circuit_breaker">>)>>)

BreakerFiles == {BreakerFile(Breaker3), BreakerFile(Breaker4)}

\* ctx.GetString("target") of the requests of the breaker specification
BreakerTarget == "http://u1"

\* the status codes the upstream or the proxy's error handler writes
ResponseCodes == {200, 500, 502}

NewBucket(t) == [failures |-> 0, successes |-> 0, timestamp |-> t]

\* windowSize is in seconds, current counts from 0 as in the code
NewWindow(size, windowSize, t) ==
    [buckets |-> [i \in 1..size |-> NewBucket(t)], size |-> size,
     windowSize |-> windowSize, current |-> 0]

\* the window afterwards; the bucket returned is buckets[current + 1] of it
getCurrentBucket(w, t) ==
    LET bucket == w.buckets[w.current + 1]
        next == (w.current + 1) % w.size
    IN  IF t - bucket.timestamp >= w.windowSize \div w.size
        THEN [w EXCEPT !.current = next, !.buckets[next + 1] = NewBucket(t)]
        ELSE w

RecordFailure(w, t) ==
    LET r == getCurrentBucket(w, t)
    IN  [r EXCEPT !.buckets[r.current + 1].failures = @ + 1]

RecordSuccess(w, t) ==
    LET r == getCurrentBucket(w, t)
    IN  [r EXCEPT !.buckets[r.current + 1].successes = @ + 1]

RECURSIVE SumOver(_, _, _)
SumOver(bs, field, i) ==
    IF i = 0 THEN 0 ELSE bs[i][field] + SumOver(bs, field, i - 1)

\* totalFailures and totalRequests of GetFailureRate
GetFailureRate(w, t) ==
    LET windowStart == t - w.windowSize
        counted == [i \in 1..w.size |->
                       IF w.buckets[i].timestamp < windowStart THEN NewBucket(0)
                       ELSE w.buckets[i]]
        totalFailures == SumOver(counted, "failures", w.size)
    IN  [totalFailures |-> totalFailures,
         totalRequests |-> totalFailures + SumOver(counted, "successes", w.size)]

\* float64(totalFailures)/float64(totalRequests) >= float64(percent)/100.0, and 0 for
\* the quotient when totalRequests is 0
RateAtLeast(rate, percent) ==
    IF rate.totalRequests = 0 THEN 0 >= percent
    ELSE rate.totalFailures * 100 >= percent * rate.totalRequests

\* p.config[name].(int) or the default
ConfigInt(config, name, default) ==
    LET c == TypeAssert(config, name, "int") IN IF c.ok THEN c.v ELSE default

\* the CircuitBreaker getCircuitBreaker makes for a target that has none
NewCircuitBreaker(config, t) ==
    LET failureThreshold == ConfigInt(config, "failure_threshold", DefaultFailureThreshold)
        recoveryTimeout == ConfigInt(config, "recovery_timeout", DefaultRecoveryTimeout)
        halfOpenQuota == ConfigInt(config, "half_open_quota", DefaultHalfOpenQuota)
        successThreshold == ConfigInt(config, "success_threshold", DefaultSuccessThreshold)
        windowSize == ConfigInt(config, "window_size", DefaultWindowSize)
    IN  [state |-> StateClosed,
         halfOpenQuota |-> halfOpenQuota,
         config |-> [failure_threshold |-> failureThreshold,
                     recovery_timeout |-> recoveryTimeout,
                     half_open_quota |-> halfOpenQuota,
                     success_threshold |-> successThreshold,
                     window_size |-> windowSize],
         window |-> NewWindow(WindowBuckets, windowSize, t),
         lastUsed |-> t]

\* allowRequest after its load of cb.state returned seen: the breaker afterwards and
\* the verdict
allowRequest(cb, seen, t) ==
    CASE seen = StateClosed ->
           IF RateAtLeast(GetFailureRate(cb.window, t), cb.config.failure_threshold)
           THEN [cb |-> [cb EXCEPT !.state = StateOpen], ok |-> FALSE]
           ELSE [cb |-> cb, ok |-> TRUE]
      [] seen = StateOpen ->
           LET w == getCurrentBucket(cb.window, t)
               since == t - w.buckets[w.current + 1].timestamp
               rotated == [cb EXCEPT !.window = w]
           IN  IF since >= cb.config.recovery_timeout /\ cb.state = StateOpen
               THEN [cb |-> [rotated EXCEPT !.state = StateHalfOpen,
                                            !.halfOpenQuota = cb.config.half_open_quota],
                     ok |-> TRUE]
               ELSE [cb |-> rotated, ok |-> FALSE]
      [] seen = StateHalfOpen ->
           LET quota == cb.halfOpenQuota - 1
           IN  [cb |-> [cb EXCEPT !.halfOpenQuota = quota], ok |-> quota >= 0]

recordFailure(cb, t) == [cb EXCEPT !.window = RecordFailure(cb.window, t)]

\* recordSuccess without the comparison with success_threshold
recordSuccessAnyRatio(cb, t) ==
    LET w == RecordSuccess(cb.window, t)
    IN  IF cb.state = StateHalfOpen
        THEN [cb EXCEPT !.window = w, !.state = StateClosed]
        ELSE [cb EXCEPT !.window = w]

recordSuccess(cb, t) ==
    LET w == RecordSuccess(cb.window, t)
    IN  IF cb.state = StateHalfOpen
           /\ ~RateAtLeast(GetFailureRate(w, t), cb.config.success_threshold)
        THEN [cb EXCEPT !.window = w, !.state = StateClosed]
        ELSE [cb EXCEPT !.window = w]

\* responses the breaker of the target has recorded
Recorded ==
    IF BreakerTarget \in DOMAIN circuitBreakers
    THEN LET w == circuitBreakers[BreakerTarget].window
         IN  SumOver(w.buckets, "failures", w.size) + SumOver(w.buckets, "successes", w.size)
    ELSE 0

InFlight == Cardinality({g \in DOMAIN cbReqs : cbReqs[g].pc # "idle"})

\* Execute up to the first line of allowRequest: getCircuitBreaker, made if absent and
\* lastUsed renewed if present, then the load of cb.state
CbLoad(g) ==
    LET config == registry["circuit_breaker"].config
        exists == BreakerTarget \in DOMAIN circuitBreakers
        cb == IF exists THEN [circuitBreakers[BreakerTarget] EXCEPT !.lastUsed = now]
              ELSE NewCircuitBreaker(config, now)
    IN  /\ cbReqs[g].pc = "idle"
        /\ \E c \in DOMAIN routeChains : \E i \in DOMAIN routeChains[c] :
               routeChains[c][i] = "circuit_breaker"
        /\ Recorded + InFlight < MaxRecords
        /\ cb.state = StateHalfOpen => cb.halfOpenQuota > -MaxOverdraw
        /\ circuitBreakers' = [k \in DOMAIN circuitBreakers \cup {BreakerTarget} |->
                                  IF k = BreakerTarget THEN cb ELSE circuitBreakers[k]]
        /\ cbReqs' = [cbReqs EXCEPT ![g] =
                         [pc |-> "decide", seen |-> cb.state, trial |-> FALSE]]
        /\ UNCHANGED <<verdict, outcome, openedAt, trials>>
        /\ UNCHANGED <<file, currentConfig, routeVars>>
        /\ UNCHANGED <<reload, lastReload, pluginVars, inflight, hist, limiterVars, otherVars>>

\* the rest of allowRequest, then 503 and Abort or the wrapping of ctx.Writer
CbDecide(g) ==
    /\ cbReqs[g].pc = "decide"
    /\ LET cb == circuitBreakers[BreakerTarget]
           r == allowRequest(cb, cbReqs[g].seen, now)
           turnedHalfOpen == cb.state = StateOpen /\ r.cb.state = StateHalfOpen
           trial == r.ok /\ cbReqs[g].seen # StateClosed
       IN  /\ circuitBreakers' = [circuitBreakers EXCEPT ![BreakerTarget] = r.cb]
           /\ cbReqs' = [cbReqs EXCEPT ![g] =
                  IF r.ok THEN [pc |-> "proxy", seen |-> cbReqs[g].seen, trial |-> trial]
                  ELSE IdleCbReq]
           /\ verdict' = [seen |-> cbReqs[g].seen, was |-> cb.state,
                          became |-> r.cb.state,
                          reached |-> RateAtLeast(GetFailureRate(cb.window, now),
                                                  cb.config.failure_threshold),
                          age |-> IF openedAt >= 0 THEN now - openedAt ELSE 0,
                          status |-> IF r.ok THEN "admitted" ELSE "503"]
           /\ openedAt' = IF cb.state # StateOpen /\ r.cb.state = StateOpen
                          THEN now ELSE openedAt
           /\ trials' = IF turnedHalfOpen
                        THEN [NoTrials EXCEPT !.admitted = 1]
                        ELSE IF trial THEN [trials EXCEPT !.admitted = @ + 1]
                        ELSE trials
    /\ UNCHANGED outcome
    /\ UNCHANGED <<file, currentConfig, routeVars>>
    /\ UNCHANGED <<reload, lastReload, pluginVars, inflight, hist, limiterVars, otherVars>>

\* responseWriter.WriteHeader(code) of an admitted request
WriteHeader(g, code) ==
    /\ cbReqs[g].pc = "proxy"
    /\ LET cb == circuitBreakers[BreakerTarget]
           after == IF code >= 500 THEN recordFailure(cb, now) ELSE recordSuccess(cb, now)
           counted == cbReqs[g].trial /\ cb.state = StateHalfOpen
       IN  /\ circuitBreakers' = [circuitBreakers EXCEPT ![BreakerTarget] = after]
           /\ trials' = IF ~counted THEN trials
                        ELSE IF code >= 500 THEN [trials EXCEPT !.failed = @ + 1]
                        ELSE [trials EXCEPT !.succeeded = @ + 1]
           /\ outcome' = [was |-> cb.state, became |-> after.state,
                          success |-> ~(code >= 500),
                          failures |-> outcome.failures + (IF code >= 500 THEN 1 ELSE 0),
                          requests |-> outcome.requests + 1]
    /\ cbReqs' = [cbReqs EXCEPT ![g] = IdleCbReq]
    /\ UNCHANGED <<verdict, openedAt>>
    /\ UNCHANGED <<file, currentConfig, routeVars>>
    /\ UNCHANGED <<reload, lastReload, pluginVars, inflight, hist, limiterVars, otherVars>>

\* a second passes while no request is between the load of cb.state and its verdict
CbTick ==
    /\ \A g \in DOMAIN cbReqs : cbReqs[g].pc # "decide"
    /\ now < MaxCbTime
    /\ now' = now + 1
    /\ UNCHANGED <<buckets, bucketHeap, limitReqs, lastSweep, admits, lastSeen, epochAdmits>>
    /\ UNCHANGED breakerVars
    /\ UNCHANGED <<file, currentConfig, routeVars>>
    /\ UNCHANGED <<reload, lastReload, pluginVars, inflight, hist, otherVars>>

InitBreaker ==
    /\ file \in BreakerFiles
    /\ currentConfig = file
    /\ engineRoutes = registerRoutes(file)
    /\ mgrRoutes = ToRouterConfig(file.routes)
    /\ trieRouter = <<>>
    /\ routeCache = <<>>
    /\ lastReq = <<>>
    /\ dispSel = <<>>
    /\ mgrSel = <<>>
    /\ lookup = "none"
    /\ reload = Idle
    /\ lastReload = "none"
    /\ availablePlugins = Startup(file).available
    /\ routeChains = Startup(file).chains
    /\ registry = Startup(file).plugins
    /\ pluginCache = EmptyMap
    /\ inflight = <<>>
    /\ hist = <<>>
    /\ NoLimiterTraffic
    /\ NoBreakerTraffic
    /\ NoOtherTraffic

NextBreaker ==
    \/ \E g \in 1..MaxCbReqs : CbLoad(g)
    \/ \E g \in 1..MaxCbReqs : CbDecide(g)
    \/ \E g \in 1..MaxCbReqs : \E code \in ResponseCodes : WriteHeader(g, code)
    \/ CbTick

SpecBreaker == InitBreaker /\ [][NextBreaker]_vars

(***************************************************************************)
(* The sliding window, statement by statement: window.go.  RecordFailure   *)
(* and RecordSuccess are getCurrentBucket() followed by a plain ++ on a    *)
(* field of the bucket returned; goroutines interleave between the atomic  *)
(* operations and between the load and the store of the ++.                *)
(***************************************************************************)
\* the Window with the buckets its slots point to, as GetFailureRate reads it
Pointees(w) ==
    [buckets |-> [i \in 1..w.size |-> w.heap[w.slots[i]]], size |-> w.size,
     windowSize |-> w.windowSize, current |-> w.current]

\* calls of RecordFailure and RecordSuccess begun and not returned
Recording == Cardinality({g \in DOMAIN recorders : recorders[g].pc # "idle"})

\* RecordFailure/RecordSuccess enter getCurrentBucket: time.Now(), the atomic load of
\* w.current and the read of w.buckets[current]
RecEnter(g, kind) ==
    /\ recorders[g].pc = "idle"
    /\ recordsDone.failures + recordsDone.successes + Recording < MaxWinRecords
    /\ recorders' = [recorders EXCEPT ![g] =
                        [pc |-> "rotate", kind |-> kind, t |-> now, current |-> win.current,
                         bucket |-> win.slots[win.current + 1], val |-> 0]]
    /\ UNCHANGED <<win, recordsDone>>
    /\ UNCHANGED <<file, currentConfig, routeVars>>
    /\ UNCHANGED <<reload, lastReload, pluginVars, inflight, hist, limiterVars, breakerVars,
                   besideWindow>>

\* getCurrentBucket: the age test of the bucket read and the CompareAndSwap of w.current
RecRotate(g) ==
    /\ recorders[g].pc = "rotate"
    /\ LET r == recorders[g]
           next == (r.current + 1) % win.size
           old == r.t - win.heap[r.bucket].timestamp >= win.windowSize \div win.size
           swapped == old /\ win.current = r.current
       IN  /\ win' = IF swapped THEN [win EXCEPT !.current = next] ELSE win
           /\ recorders' = [recorders EXCEPT ![g].pc = IF swapped THEN "store" ELSE "count"]
    /\ UNCHANGED recordsDone
    /\ UNCHANGED <<file, currentConfig, routeVars>>
    /\ UNCHANGED <<reload, lastReload, pluginVars, inflight, hist, limiterVars, breakerVars,
                   besideWindow>>

\* getCurrentBucket after a successful swap: w.buckets[next] = &Bucket{timestamp: now},
\* and the return of that bucket
RecStore(g) ==
    /\ recorders[g].pc = "store"
    /\ LET r == recorders[g]
           next == (r.current + 1) % win.size
           fresh == Len(win.heap) + 1
       IN  /\ win' = [win EXCEPT !.heap = Append(@, NewBucket(r.t)),
                                 !.slots[next + 1] = fresh]
           /\ recorders' = [recorders EXCEPT ![g].pc = "count", ![g].bucket = fresh]
    /\ UNCHANGED recordsDone
    /\ UNCHANGED <<file, currentConfig, routeVars>>
    /\ UNCHANGED <<reload, lastReload, pluginVars, inflight, hist, limiterVars, breakerVars,
                   besideWindow>>

\* the load of failures++ / successes++
RecRead(g) ==
    /\ recorders[g].pc = "count"
    /\ recorders' = [recorders EXCEPT ![g].pc = "write",
                                      ![g].val = win.heap[recorders[g].bucket][recorders[g].kind]]
    /\ UNCHANGED <<win, recordsDone>>
    /\ UNCHANGED <<file, currentConfig, routeVars>>
    /\ UNCHANGED <<reload, lastReload, pluginVars, inflight, hist, limiterVars, breakerVars,
                   besideWindow>>

\* the store of failures++ / successes++, and the return
RecWrite(g) ==
    /\ recorders[g].pc = "write"
    /\ LET r == recorders[g]
       IN  /\ win' = [win EXCEPT !.heap[r.bucket][r.kind] = r.val + 1]
           /\ recordsDone' = [recordsDone EXCEPT ![r.kind] = @ + 1]
    /\ recorders' = [recorders EXCEPT ![g] = IdleRecorder]
    /\ UNCHANGED <<file, currentConfig, routeVars>>
    /\ UNCHANGED <<reload, lastReload, pluginVars, inflight, hist, limiterVars, breakerVars,
                   besideWindow>>

\* a second passes
WinTick ==
    /\ now < MaxWinTime
    /\ now' = now + 1
    /\ UNCHANGED <<buckets, bucketHeap, limitReqs, lastSweep, admits, lastSeen, epochAdmits>>
    /\ UNCHANGED <<breakerVars, otherVars>>
    /\ UNCHANGED <<file, currentConfig, routeVars>>
    /\ UNCHANGED <<reload, lastReload, pluginVars, inflight, hist>>

NextWindow ==
    \/ \E g \in 1..MaxRecorders : \E kind \in {"failures", "successes"} : RecEnter(g, kind)
    \/ \E g \in 1..MaxRecorders : RecRotate(g)
    \/ \E g \in 1..MaxRecorders : RecStore(g)
    \/ \E g \in 1..MaxRecorders : RecRead(g)
    \/ \E g \in 1..MaxRecorders : RecWrite(g)
    \/ WinTick

SpecWindow == InitBreaker /\ [][NextWindow]_vars

(***************************************************************************)
(* The dispatcher middleware from the match to the response: the chain,    *)
(* the internal response, the path handed to the reverse proxy and the     *)
(* call to the upstream.                                                   *)
(***************************************************************************)
\* the target URLs of this part, split at the scheme separator
URLBytes(url) ==
    CASE url = "internal://default" -> <<"internal", "://", "default">>
      [] url = "http://internal" -> <<"http", "://", "internal">>
      [] OTHER -> <<"http", "://", "u1">>

\* strings.HasPrefix(matchedRoute.Target.URL, "internal://")
IsInternalNever(url) == FALSE

IsInternal(url) == HasPrefix(URLBytes(url), <<"internal", "://">>)

\* config.ResponseConfig
ResponseConfig(status, content, contentType) ==
    [status |-> status, content |-> content, content_type |-> contentType]

\* config.RouteConfig with target.retries and the optional response
ProxyRoute(match, url, retries, response, plugins) ==
    RouteConfig("r1", match, url, plugins) @@ [retries |-> retries, response |-> response]

\* files with one route: every match type and path, an upstream or an internal
\* target, with and without a response, with and without retries, behind cors or not
ProxyTargets ==
    {[url |-> "internal://default", retries |-> 0, response |-> response] :
        response \in {<<>>, <<ResponseConfig(201, "ok", "")>>,
                      <<ResponseConfig(200, "ok", "text/html")>>}}
    \cup {[url |-> "http://u1", retries |-> retries, response |-> <<>>] : retries \in {0, 2}}
    \cup {[url |-> "http://internal", retries |-> 0, response |-> <<>>]}

ProxyFiles ==
    {Config(<<PluginConfig("cors", TRUE, 2, Cors1)>>,
            <<ProxyRoute(PathMatch(type, path, 1), t.url, t.retries, t.response, plugins)>>) :
        type \in MatchTypes, path \in RoutePaths("exact"), t \in ProxyTargets,
        plugins \in {<<>>, <<"cors">>}}

ProxyRequests ==
    [path : {p \in SeqsUpTo(Bytes, MaxProxyPathLen) : p[1] = "/"},
     method : {"GET", "POST", "OPTIONS"}, token : {""}]

\* what a call to the upstream ends in: the connection fails, or a response
\* with a status arrives
NetOutcomes ==
    {[err |-> TRUE, status |-> 0]} \cup {[err |-> FALSE, status |-> c] : c \in {200, 404, 500}}

\* the outcomes of the calls to the upstream, were they made: any outcome of the
\* first call, then either all fail or the next one is answered 200
NetOutcomeSeqs ==
    {[i \in 1..MaxAttempts |-> IF i = 1 THEN first ELSE IF i = 2 THEN second ELSE [err |-> FALSE, status |-> 200]] :
        first \in NetOutcomes, second \in {[err |-> TRUE, status |-> 0], [err |-> FALSE, status |-> 200]}}

\* the response of an internal:// route
InternalResponse(route) ==
    IF route.response # <<>>
    THEN [status |-> route.response[1].status, body |-> route.response[1].content,
          contentType |-> IF route.response[1].content_type # ""
                          THEN route.response[1].content_type ELSE "text/plain"]
    ELSE [status |-> 200, body |-> "gateway-go running",
          contentType |-> "text/plain; charset=utf-8"]

\* proxyPath
proxyPathAlwaysTrimmed(match, path) ==
    LET trimmed == TrimPrefix(path, match.path)
    IN  IF HasPrefix(trimmed, <<"/">>) THEN trimmed ELSE <<"/">> \o trimmed

proxyPath(match, path) ==
    IF match.type = "prefix" /\ match.path # <<"/">>
    THEN LET trimmed == TrimPrefix(path, match.path)
         IN  IF HasPrefix(trimmed, <<"/">>) THEN trimmed ELSE <<"/">> \o trimmed
    ELSE path

\* proxy.ServeHTTP: one round trip to the target with the path of the Director;
\* the ErrorHandler answers 502 when it fails, otherwise the upstream's response
\* is copied; net[i] is how the i-th call to the upstream would end
ServeHTTP(url, path, method, net) ==
    [status |-> IF net[1].err THEN 502 ELSE net[1].status,
     body |-> IF net[1].err THEN "error" ELSE "upstream",
     contentType |-> IF net[1].err THEN "application/json" ELSE "",
     calls |-> <<[url |-> url, path |-> path, method |-> method, outcome |-> net[1]]>>]

\* the status a plugin or the dispatcher has written, as a number
StatusOf(written) ==
    CASE written = "401" -> 401 [] written = "403" -> 403 [] written = "404" -> 404
      [] written = "500" -> 500 [] OTHER -> 200

\* the middleware of registerRoutes for one request, from the match to the response
Serve(req, net) ==
    /\ LET m == FirstMatch(engineRoutes, req.path)
           route == m[1]
           ctx == [path |-> req.path, method |-> req.method, token |-> req.token,
                   target |-> route.target]
           r == ManagerExecute(route.name, ctx, routeChains, registry, pluginCache, TRUE)
           none == [status |-> 0, body |-> "", contentType |-> "", calls |-> <<>>]
           answer ==
               IF m = <<>> THEN [none EXCEPT !.status = 404, !.body = "error"]
               ELSE IF r.err THEN [none EXCEPT !.status = 500, !.body = "error"]
               ELSE IF r.aborted
               THEN [none EXCEPT !.status = StatusOf(r.written[Len(r.written)]),
                                 !.body = "plugin"]
               ELSE IF IsInternal(route.target)
               THEN InternalResponse(route) @@ [calls |-> <<>>]
               ELSE ServeHTTP(route.target, proxyPath(route.match, req.path),
                              req.method, net)
       IN  /\ served' = <<[req |-> req, route |-> m,
                           chain |-> IF m = <<>> THEN <<>> ELSE r.trace,
                           passed |-> m # <<>> /\ ~r.err /\ ~r.aborted] @@ answer>>
           /\ pluginCache' = IF m = <<>> THEN pluginCache ELSE r.cache
    /\ UNCHANGED <<file, currentConfig, routeVars>>
    /\ UNCHANGED <<reload, lastReload, availablePlugins, routeChains, registry, inflight,
                   hist, limiterVars, breakerVars, besideProxy>>

InitProxy ==
    /\ file \in ProxyFiles
    /\ currentConfig = file
    /\ engineRoutes = registerRoutes(file)
    /\ mgrRoutes = ToRouterConfig(file.routes)
    /\ trieRouter = <<>>
    /\ routeCache = <<>>
    /\ lastReq = <<>>
    /\ dispSel = <<>>
    /\ mgrSel = <<>>
    /\ lookup = "none"
    /\ reload = Idle
    /\ lastReload = "none"
    /\ availablePlugins = Startup(file).available
    /\ routeChains = Startup(file).chains
    /\ registry = Startup(file).plugins
    /\ pluginCache = EmptyMap
    /\ inflight = <<>>
    /\ hist = <<>>
    /\ NoLimiterTraffic
    /\ NoBreakerTraffic
    /\ NoOtherTraffic

NextProxy ==
    \E req \in ProxyRequests : \E net \in NetOutcomeSeqs : Serve(req, net)

SpecProxy == InitProxy /\ [][NextProxy]_vars

(***************************************************************************)
(* The consistency plugin: signature, timestamp and nonce of a request.    *)
(***************************************************************************)
DefaultTimestampValidity == 300   \* TimestampValidity: 300 of New()

\* timestamp_validity as a YAML file yields it, an int
Consistency1 == [timestamp_validity |-> GoInt(300)]
Consistency2 == [timestamp_validity |-> GoInt(2)]

ConsistencyFile(consistency) ==
    Config(<<PluginConfig("consistency", TRUE, 1, consistency)>>,
           <<RouteConfig("r1", PathMatch("prefix", <<"/">>, 1), "http://u1",
                         <<"consistency">>)>>)

ConsistencyFiles == {ConsistencyFile(Consistency1), ConsistencyFile(Consistency2)}

\* ConsistencyPlugin.Init: configMap["timestamp_validity"].(int64) replaces the default
ConsistencyInit(configMap) ==
    LET timestampValidity == TypeAssert(configMap, "timestamp_validity", "int64")
    IN  [timestamp_validity |-> IF timestampValidity.ok THEN timestampValidity.v
                                ELSE DefaultTimestampValidity]

Abs(x) == IF x < 0 THEN -x ELSE x

\* the timestamp header: absent, not a decimal number, or a number
NoTimestamp == [given |-> FALSE, numeric |-> FALSE, v |-> 0]
BadTimestamp == [given |-> TRUE, numeric |-> FALSE, v |-> 0]
Timestamp(v) == [given |-> TRUE, numeric |-> TRUE, v |-> v]

\* how far the timestamps of the requests are from the clock
TimestampOffsets ==
    UNION {{0, v, v + 1, -v, -(v + 1)} :
              v \in {Consistency1.timestamp_validity.v, Consistency2.timestamp_validity.v}}

\* the headers of a request at time t: X-Signature absent, equal to the signature
\* calculated over the fields or different, timestamp, nonce
ConsistencyRequests(t) ==
    [signature : {"", "good", "bad"},
     timestamp : {NoTimestamp, BadTimestamp} \cup {Timestamp(t + d) : d \in TimestampOffsets},
     nonce : {"", "n", "m"}]

\* validateTimestamp: the error, "" for none
validateTimestamp(timestamp, validity, t) ==
    IF ~timestamp.numeric THEN "invalid timestamp format"
    ELSE IF Abs(t - timestamp.v) > validity THEN "timestamp expired"
    ELSE ""

\* cleanupExpiredNonces
cleanupExpiredNonces(nonces, validity, t) ==
    [k \in {x \in DOMAIN nonces : ~(t - nonces[x] > validity)} |-> nonces[k]]

\* checkRequest: the error ("" for none) and usedNonces afterwards
checkRequest(req, nonces, validity, t) ==
    LET swept == cleanupExpiredNonces(nonces, validity, t)
        stamp == validateTimestamp(req.timestamp, validity, t)
    IN  IF req.signature = "" THEN [err |-> "missing signature", nonces |-> nonces]
        ELSE IF ~req.timestamp.given THEN [err |-> "missing timestamp", nonces |-> nonces]
        ELSE IF stamp # "" THEN [err |-> stamp, nonces |-> nonces]
        ELSE IF req.nonce = "" THEN [err |-> "missing nonce", nonces |-> nonces]
        ELSE IF req.nonce \in DOMAIN nonces THEN [err |-> "nonce used", nonces |-> nonces]
        ELSE IF req.signature # "good" THEN [err |-> "invalid signature", nonces |-> swept]
        ELSE [err |-> "",
              nonces |-> [k \in DOMAIN swept \cup {req.nonce} |->
                             IF k = req.nonce THEN t ELSE swept[k]]]

\* ConsistencyPlugin.Execute: 400 and abort on an error of checkRequest
ConsistencyExecute(req) ==
    /\ \E c \in DOMAIN routeChains : \E i \in DOMAIN routeChains[c] :
           routeChains[c][i] = "consistency"
    /\ LET validity == ConsistencyInit(registry["consistency"].config).timestamp_validity
           r == checkRequest(req, usedNonces, validity, now)
       IN  /\ usedNonces' = r.nonces
           /\ nonceLog' = [stored |-> IF r.err = "" THEN nonceLog.stored \cup {req.nonce}
                                      ELSE nonceLog.stored,
                           last |-> <<[req |-> req, at |-> now, err |-> r.err,
                                       status |-> IF r.err # "" THEN 400 ELSE 0,
                                       replay |-> req.nonce \in nonceLog.stored]>>]
    /\ UNCHANGED nonceReqs
    /\ UNCHANGED <<file, currentConfig, routeVars>>
    /\ UNCHANGED <<reload, lastReload, pluginVars, inflight, hist, limiterVars, breakerVars,
                   besideNonce>>

\* time passes: a second, or the default validity
NonceTick(d) ==
    /\ now + d <= MaxNonceTime
    /\ d = 1 => now % DefaultTimestampValidity < MaxShort
    /\ now' = now + d
    /\ UNCHANGED <<buckets, bucketHeap, limitReqs, lastSweep, admits, lastSeen, epochAdmits>>
    /\ UNCHANGED <<breakerVars, otherVars>>
    /\ UNCHANGED <<file, currentConfig, routeVars>>
    /\ UNCHANGED <<reload, lastReload, pluginVars, inflight, hist>>

InitNonce ==
    /\ file \in ConsistencyFiles
    /\ currentConfig = file
    /\ engineRoutes = registerRoutes(file)
    /\ mgrRoutes = ToRouterConfig(file.routes)
    /\ trieRouter = <<>>
    /\ routeCache = <<>>
    /\ lastReq = <<>>
    /\ dispSel = <<>>
    /\ mgrSel = <<>>
    /\ lookup = "none"
    /\ reload = Idle
    /\ lastReload = "none"
    /\ availablePlugins = Startup(file).available
    /\ routeChains = Startup(file).chains
    /\ registry = Startup(file).plugins
    /\ pluginCache = EmptyMap
    /\ inflight = <<>>
    /\ hist = <<>>
    /\ NoLimiterTraffic
    /\ NoBreakerTraffic
    /\ NoOtherTraffic

NextNonce ==
    \/ \E req \in ConsistencyRequests(now) : ConsistencyExecute(req)
    \/ \E d \in {1, DefaultTimestampValidity} : NonceTick(d)

SpecNonce == InitNonce /\ [][NextNonce]_vars

(***************************************************************************)
(* The plugin-result cache with the expiry of its entries.                 *)
(***************************************************************************)
\* requests to r1 of ConfigA; the paths hold a byte that no UTF-8 encoding contains
\* (sent as %FE and %FF)
CacheRequests ==
    [path : {<<"/", "xFE">>, <<"/", "xFF">>}, method : {"GET"},
     host : {"h1", "h2"}, query : {<<>>}, token : {"", "t"}, ctype : {""}, agent : {""}]

\* what GenerateCacheKey reads from the request
KeyAttributes(ctx) ==
    [path |-> ctx.path, method |-> ctx.method, host |-> ctx.host, query |-> ctx.query,
     token |-> ctx.token, ctype |-> ctx.ctype, agent |-> ctx.agent]

\* PluginCache.Get at this moment: the entries it returns
PluginCacheGet(cache, t) ==
    [k \in {x \in DOMAIN cache : ~(t > cache[x].Expire)} |-> cache[k].entry]

\* the middleware for a request: the route, then Manager.Execute with the cache
CacheExecute(req, authOk) ==
    /\ LET m == FirstMatch(engineRoutes, req.path)
           live == PluginCacheGet(timedCache, now)
           r == ManagerExecute(IF m = <<>> THEN "" ELSE m[1].name, req, routeChains,
                               registry, live, authOk)
           set == {k \in DOMAIN r.cache : k \notin DOMAIN live}
       IN  /\ timedCache' =
                 [k \in DOMAIN timedCache \cup set |->
                     IF k \in set
                     THEN [entry |-> r.cache[k], Expire |-> now + PluginCacheTTL,
                           by |-> KeyAttributes(req), at |-> now]
                     ELSE timedCache[k]]
           /\ cacheLog' =
                 <<[req |-> KeyAttributes(req), at |-> now,
                    hits |-> {[plugin |-> h[1],
                               entry |-> timedCache[GenerateCacheKey(req, h[1])]] :
                                  h \in r.hits},
                    ran |-> {x[1] : x \in r.ran},
                    failed |-> IF r.err THEN {r.trace[Len(r.trace)].plugin} ELSE {},
                    set |-> {k[1] : k \in set}]>>
    /\ UNCHANGED <<file, currentConfig, routeVars>>
    /\ UNCHANGED <<reload, lastReload, pluginVars, inflight, hist, limiterVars, breakerVars,
                   besideCache>>

\* the clock, second by second around the TTL; the cleanup goroutine deletes nothing that
\* Get would return
CacheTick(d) ==
    /\ now + d <= MaxCacheTime
    /\ d = 1 => now >= PluginCacheTTL - 1
    /\ now' = now + d
    /\ UNCHANGED <<buckets, bucketHeap, limitReqs, lastSweep, admits, lastSeen, epochAdmits>>
    /\ UNCHANGED <<breakerVars, otherVars>>
    /\ UNCHANGED <<file, currentConfig, routeVars>>
    /\ UNCHANGED <<reload, lastReload, pluginVars, inflight, hist>>

NextCache ==
    \/ \E req \in CacheRequests : \E authOk \in BOOLEAN : CacheExecute(req, authOk)
    \/ \E d \in {1, PluginCacheTTL - 1} : CacheTick(d)

SpecCache == InitReload /\ [][NextCache]_vars

(***************************************************************************)
(* checkRequest of the consistency plugin, goroutine by goroutine: the     *)
(* Load in validateNonce and the Store at the end are two operations on    *)
(* the sync.Map.                                                           *)
(***************************************************************************)
\* signed requests with a timestamp of the present second and a nonce
RacingRequests ==
    [signature : {"good", "bad"}, timestamp : {Timestamp(now)}, nonce : {"n", "m"}]

\* checkRequest up to the return of validateNonce: the headers, validateTimestamp,
\* the Load of the nonce and the sweep
NonceValidate(g, req) ==
    /\ nonceReqs[g].pc = "idle"
    /\ LET validity == ConsistencyInit(registry["consistency"].config).timestamp_validity
           stamp == validateTimestamp(req.timestamp, validity, now)
           err == IF req.signature = "" THEN "missing signature"
                  ELSE IF ~req.timestamp.given THEN "missing timestamp"
                  ELSE IF stamp # "" THEN stamp
                  ELSE IF req.nonce = "" THEN "missing nonce"
                  ELSE IF req.nonce \in DOMAIN usedNonces THEN "nonce used"
                  ELSE ""
       IN  /\ usedNonces' = IF err = "" THEN cleanupExpiredNonces(usedNonces, validity, now)
                            ELSE usedNonces
           /\ nonceReqs' = [nonceReqs EXCEPT ![g] =
                  [pc |-> IF err = "" THEN "sign" ELSE "done", req |-> req, err |-> err,
                   beside |-> {h \in DOMAIN nonceReqs : nonceReqs[h].pc = "sign"}]]
    /\ UNCHANGED nonceLog
    /\ UNCHANGED <<file, currentConfig, routeVars>>
    /\ UNCHANGED <<reload, lastReload, pluginVars, inflight, hist, limiterVars, breakerVars,
                   besideNonce>>

\* the rest of checkRequest: the fields, the signature and p.usedNonces.Store
NonceStore(g) ==
    /\ nonceReqs[g].pc = "sign"
    /\ LET req == nonceReqs[g].req
           err == IF req.signature # "good" THEN "invalid signature" ELSE ""
       IN  /\ usedNonces' = IF err # "" THEN usedNonces
                            ELSE [k \in DOMAIN usedNonces \cup {req.nonce} |->
                                     IF k = req.nonce THEN now ELSE usedNonces[k]]
           /\ nonceLog' = IF err # "" THEN nonceLog
                          ELSE [nonceLog EXCEPT !.stored = @ \cup {req.nonce}]
           /\ nonceReqs' = [nonceReqs EXCEPT ![g].pc = "done", ![g].err = err]
    /\ UNCHANGED <<file, currentConfig, routeVars>>
    /\ UNCHANGED <<reload, lastReload, pluginVars, inflight, hist, limiterVars, breakerVars,
                   besideNonce>>

\* the goroutine takes the next request
NonceNext(g) ==
    /\ nonceReqs[g].pc = "done"
    /\ \A h \in DOMAIN nonceReqs : nonceReqs[h].pc # "sign"
    /\ nonceReqs' = [h \in DOMAIN nonceReqs |-> [pc |-> "idle"]]
    /\ UNCHANGED <<usedNonces, nonceLog>>
    /\ UNCHANGED <<file, currentConfig, routeVars>>
    /\ UNCHANGED <<reload, lastReload, pluginVars, inflight, hist, limiterVars, breakerVars,
                   besideNonce>>

NextNonceRace ==
    \/ \E g \in 1..MaxNonceReqs : \E req \in RacingRequests : NonceValidate(g, req)
    \/ \E g \in 1..MaxNonceReqs : NonceStore(g)
    \/ \E g \in 1..MaxNonceReqs : NonceNext(g)

SpecNonceRace == InitNonce /\ [][NextNonceRace]_vars

(***************************************************************************)
(* interface_auth with the answers of the external auth service.           *)
(***************************************************************************)
\* strings.TrimSpace on a body made of the pieces " ", "false", "true" and "x"
RECURSIVE TrimSpaceLeft(_)
TrimSpaceLeft(s) == IF s # <<>> /\ Head(s) = " " THEN TrimSpaceLeft(Tail(s)) ELSE s

RECURSIVE TrimSpaceRight(_)
TrimSpaceRight(s) ==
    IF s # <<>> /\ s[Len(s)] = " " THEN TrimSpaceRight(SubSeq(s, 1, Len(s) - 1)) ELSE s

TrimSpace(s) == TrimSpaceRight(TrimSpaceLeft(s))

\* what p.httpClient.Do returns: an error, or a response with a status and a body
AuthResponses ==
    [failed : BOOLEAN, status : {"200", "401", "503"},
     body : {<<>>} \cup SeqsUpTo({" ", "false", "true", "x"}, MaxBodyLen)]

AuthRequests == [path : {<<"/">>, <<"/", "a">>}, method : {"GET"}, token : {"", "t"}]

\* callAuthService: what it writes and whether it returns an error
callAuthService(resp) ==
    IF resp.failed THEN [err |-> TRUE, wrote |-> <<"500">>]
    ELSE IF resp.status # "200" THEN [err |-> TRUE, wrote |-> <<resp.status>>]
    ELSE IF Len(resp.body) = 0 THEN [err |-> TRUE, wrote |-> <<"500">>]
    ELSE LET responseBody == TrimSpace(resp.body)
         IN  IF responseBody = <<"true">> THEN [err |-> TRUE, wrote |-> <<"403">>]
             ELSE IF responseBody = <<"false">> THEN [err |-> FALSE, wrote |-> <<>>]
             ELSE [err |-> TRUE, wrote |-> <<"401">>]

\* interface_auth Plugin.Execute for one request and the answer of the auth service
AuthExecute(req, resp) ==
    /\ "interface_auth" \in availablePlugins
    /\ LET whitelisted == req.path \in registry["interface_auth"].config.white_interfaces
           called == ~whitelisted /\ req.token # ""
           r == IF whitelisted THEN [err |-> FALSE, wrote |-> <<>>]
                ELSE IF req.token = "" THEN [err |-> TRUE, wrote |-> <<"401">>]
                ELSE callAuthService(resp)
       IN  authLog' = <<[req |-> req, called |-> called,
                         resp |-> IF called THEN <<resp>> ELSE <<>>,
                         err |-> r.err, wrote |-> r.wrote,
                         result |-> IF r.err THEN "" ELSE IF whitelisted THEN "whitelist"
                                    ELSE "success"]>>
    /\ UNCHANGED <<file, currentConfig, routeVars>>
    /\ UNCHANGED <<reload, lastReload, pluginVars, inflight, hist, limiterVars, breakerVars,
                   besideAuth>>

NextAuth ==
    \E req \in AuthRequests : \E resp \in AuthResponses : AuthExecute(req, resp)

SpecAuth == InitReload /\ [][NextAuth]_vars

(***************************************************************************)
(* The file watcher and the reload worker of the ConfigManager.            *)
(***************************************************************************)
\* the files written while the watcher runs
WatchFiles == {ConfigA, ConfigB, Undecodable}

\* the file is written; fsnotify queues a Write event for it
WriteFile(f) ==
    /\ watch.writes < MaxWrites
    /\ file' = f
    /\ watch' = [watch EXCEPT !.writes = @ + 1, !.events = @ + 1]
    /\ UNCHANGED <<currentConfig, routeVars>>
    /\ UNCHANGED <<reload, lastReload, pluginVars, inflight, hist, limiterVars, breakerVars,
                   besideWatch>>

\* WatchConfig's goroutine: case event := <-watcher.Events, then time.Sleep
WatcherReceive ==
    /\ watch.watcher = "select" /\ watch.events > 0
    /\ watch' = [watch EXCEPT !.events = @ - 1, !.watcher = "sleep"]
    /\ UNCHANGED <<file, currentConfig, routeVars>>
    /\ UNCHANGED <<reload, lastReload, pluginVars, inflight, hist, limiterVars, breakerVars,
                   besideWatch>>

\* after the sleep: select { case cm.reloadChan <- struct{}{}: default: } on a channel
\* that holds one signal
WatcherSignalUnbuffered ==
    /\ watch.watcher = "sleep"
    /\ watch' = IF watch.worker = "select" /\ reload.pc = "idle" /\ watch.reloadChan = 0
                THEN [watch EXCEPT !.reloadChan = 1, !.watcher = "select"]
                ELSE [watch EXCEPT !.dropped = @ + 1, !.watcher = "select"]
    /\ UNCHANGED <<file, currentConfig, routeVars>>
    /\ UNCHANGED <<reload, lastReload, pluginVars, inflight, hist, limiterVars, breakerVars,
                   besideWatch>>

WatcherSignal ==
    /\ watch.watcher = "sleep"
    /\ watch' = IF watch.reloadChan < 1
                THEN [watch EXCEPT !.reloadChan = @ + 1, !.watcher = "select"]
                ELSE [watch EXCEPT !.dropped = @ + 1, !.watcher = "select"]
    /\ UNCHANGED <<file, currentConfig, routeVars>>
    /\ UNCHANGED <<reload, lastReload, pluginVars, inflight, hist, limiterVars, breakerVars,
                   besideWatch>>

\* the worker: case <-cm.reloadChan, and cm.ReloadConfig() up to the end of TestConfig;
\* the worker is back in its select when the reload is over
WorkerReceive ==
    /\ watch.worker = "select" /\ watch.reloadChan > 0
    /\ TestReloadedConfig(file)
    /\ watch' = [watch EXCEPT !.reloadChan = @ - 1, !.lastStart = watch.writes]
    /\ UNCHANGED <<limiterVars, breakerVars, besideWatch>>

\* ConfigManager.Stop: close(cm.stopChan)
Stop ==
    /\ ~watch.stopped
    /\ watch' = [watch EXCEPT !.stopped = TRUE]
    /\ UNCHANGED <<file, currentConfig, routeVars>>
    /\ UNCHANGED <<reload, lastReload, pluginVars, inflight, hist, limiterVars, breakerVars,
                   besideWatch>>

\* case <-cm.stopChan: return, in the watcher
WatcherReturn ==
    /\ watch.stopped /\ watch.watcher = "select"
    /\ watch' = [watch EXCEPT !.watcher = "returned"]
    /\ UNCHANGED <<file, currentConfig, routeVars>>
    /\ UNCHANGED <<reload, lastReload, pluginVars, inflight, hist, limiterVars, breakerVars,
                   besideWatch>>

\* case <-cm.stopChan: return, in the worker
WorkerReturn ==
    /\ watch.stopped /\ watch.worker = "select" /\ reload.pc = "idle"
    /\ watch' = [watch EXCEPT !.worker = "returned"]
    /\ UNCHANGED <<file, currentConfig, routeVars>>
    /\ UNCHANGED <<reload, lastReload, pluginVars, inflight, hist, limiterVars, breakerVars,
                   besideWatch>>

\* the steps of the reload the worker has begun
ReloadSteps ==
    \/ LoadConfig
    \/ HookReloadFromConfig
    \/ loadAvailablePlugins
    \/ loadRoutePlugins
    \/ reloadRoutes

NextWatch ==
    \/ \E f \in WatchFiles : WriteFile(f)
    \/ WatcherReceive
    \/ WatcherSignal
    \/ WorkerReceive
    \/ ReloadSteps
    \/ Stop
    \/ WatcherReturn
    \/ WorkerReturn

SpecWatch == InitReload /\ [][NextWatch]_vars

\* the Go scheduler runs every goroutine that can take a step
SpecWatchFair ==
    /\ SpecWatch
    /\ WF_vars(WatcherReceive)
    /\ WF_vars(WatcherSignal)
    /\ WF_vars(WorkerReceive)
    /\ WF_vars(ReloadSteps)

(***************************************************************************)
(* Reloads of files in which two routes carry one name.                    *)
(***************************************************************************)
\* two routes named r1: "/" behind interface_auth and "/a" behind cors
ConfigF ==
    Config(<<PluginConfig("interface_auth", TRUE, 1, Auth1),
             PluginConfig("cors", TRUE, 2, Cors1)>>,
           <<RouteConfig("r1", PathMatch("prefix", <<"/">>, 1), "http://u1",
                         <<"interface_auth">>),
             RouteConfig("r1", PathMatch("exact", <<"/", "a">>, 2), "http://u2",
                         <<"cors">>)>>)

NextNames ==
    \/ \E f \in {ConfigA, ConfigF} : ReloadConfig(f)
    \/ ReloadSteps
    \/ \E req \in ReloadRequests : ReqStart(req)
    \/ \E authOk \in BOOLEAN : ReqExecute(authOk)

SpecNames == InitReload /\ [][NextNames]_vars

(***************************************************************************)
(* The IP whitelist plugin. Addresses are AddrBits wide.                   *)
(***************************************************************************)
Addresses == 0..(2^AddrBits - 1)

RECURSIVE Pow2(_)
Pow2(n) == IF n = 0 THEN 1 ELSE 2 * Pow2(n - 1)

\* the strings of an ip_whitelist list: an address, or a CIDR (address/bits)
WhitelistEntries ==
    [cidr : {FALSE}, addr : {0, 1}, bits : {AddrBits}] \cup
    [cidr : {TRUE}, addr : {2}, bits : {1}]

\* the lists of the configuration files
Whitelists == SUBSET WhitelistEntries

\* net.ParseCIDR and ipNet.Contains: the address agrees with the network in its
\* first bits
Contains(entry, ip) ==
    ip \div Pow2(AddrBits - entry.bits) = entry.addr \div Pow2(AddrBits - entry.bits)

isEmpty(whitelist) == whitelist = {}

\* isIPAllowed on the stored keys
isIPAllowed(whitelist, ip) ==
    \/ isEmpty(whitelist)
    \/ [cidr |-> FALSE, addr |-> ip, bits |-> AddrBits] \in whitelist
    \/ \E e \in whitelist : e.cidr /\ Contains(e, ip)

\* IPWhitelistPlugin.Init: every string of the list is stored in p.ipWhitelist
IPWhitelistInit(whitelist, list) == whitelist \cup list

\* LoadAvailablePlugins initialises the registered instance with the list of the file
WhitelistInit(list) ==
    /\ ipLog.inits < MaxInits
    /\ ipWhitelist' = IPWhitelistInit(ipWhitelist, list)
    /\ ipLog' = [inits |-> ipLog.inits + 1, list |-> list, last |-> <<>>]
    /\ UNCHANGED <<file, currentConfig, routeVars>>
    /\ UNCHANGED <<reload, lastReload, pluginVars, inflight, hist, limiterVars, breakerVars,
                   besideWhitelist>>

\* IPWhitelistPlugin.Execute for a client address
WhitelistExecute(ip) ==
    /\ ipLog.inits > 0
    /\ ipLog' = [ipLog EXCEPT !.last = <<[ip |-> ip, allowed |-> isIPAllowed(ipWhitelist, ip)]>>]
    /\ UNCHANGED ipWhitelist
    /\ UNCHANGED <<file, currentConfig, routeVars>>
    /\ UNCHANGED <<reload, lastReload, pluginVars, inflight, hist, limiterVars, breakerVars,
                   besideWhitelist>>

NextWhitelist ==
    \/ \E list \in Whitelists : WhitelistInit(list)
    \/ \E ip \in Addresses : WhitelistExecute(ip)

SpecWhitelist == InitReload /\ [][NextWhitelist]_vars

(***************************************************************************)
(* The plugin LifecycleManager, call by call and lock section by lock      *)
(* section.                                                                *)
(***************************************************************************)
\* a call has returned to its caller
Return(g, err) == [lifecycle.calls[g] EXCEPT !.pc = "done", !.err = err]

\* a goroutine calls Start, Stop or UpdateConfig
Call(g, op, name, config) ==
    /\ ~lifecycle.panicked
    /\ lifecycle.calls[g].pc \in {"idle", "done"}
    /\ lifecycle' =
          [lifecycle EXCEPT
             !.calls[g] = [pc |-> CASE op = "Start" -> "start1"
                                    [] op = "Stop" -> "stop1"
                                    [] OTHER -> "lock",
                           op |-> op, name |-> name, config |-> config, err |-> "",
                           oldConfig |-> config,
                           before |-> IF name \in DOMAIN lifecycle.plugins
                                         /\ op = "UpdateConfig"
                                      THEN <<lifecycle.plugins[name]>> ELSE <<>>]]
    /\ UNCHANGED <<file, currentConfig, routeVars>>
    /\ UNCHANGED <<reload, lastReload, pluginVars, inflight, hist, limiterVars, breakerVars,
                   besideLifecycle>>

\* UpdateConfig under m.mu: oldConfig := info.Config; info.Config = config
UpdateConfigLock(g) ==
    /\ ~lifecycle.panicked
    /\ lifecycle.calls[g].pc = "lock"
    /\ LET c == lifecycle.calls[g]
       IN  lifecycle' =
             IF c.name \notin DOMAIN lifecycle.plugins
             THEN [lifecycle EXCEPT !.calls[g] = Return(g, "not registered")]
             ELSE [lifecycle EXCEPT !.plugins[c.name].Config = c.config,
                                    !.calls[g].oldConfig = lifecycle.plugins[c.name].Config,
                                    !.calls[g].pc = "read"]
    /\ UNCHANGED <<file, currentConfig, routeVars>>
    /\ UNCHANGED <<reload, lastReload, pluginVars, inflight, hist, limiterVars, breakerVars,
                   besideLifecycle>>

\* UpdateConfig after the unlock: if info.State == StateRunning
UpdateConfigRead(g) ==
    /\ ~lifecycle.panicked
    /\ lifecycle.calls[g].pc = "read"
    /\ LET c == lifecycle.calls[g]
       IN  lifecycle' =
             IF lifecycle.plugins[c.name].State = StateRunning
             THEN [lifecycle EXCEPT !.calls[g].pc = "stop1"]
             ELSE [lifecycle EXCEPT !.calls[g] = Return(g, "")]
    /\ UNCHANGED <<file, currentConfig, routeVars>>
    /\ UNCHANGED <<reload, lastReload, pluginVars, inflight, hist, limiterVars, breakerVars,
                   besideLifecycle>>

\* Stop under m.mu; when Stop fails inside UpdateConfig, info.Config = oldConfig
StopLock(g) ==
    /\ ~lifecycle.panicked
    /\ lifecycle.calls[g].pc = "stop1"
    /\ LET c == lifecycle.calls[g]
           err == IF c.name \notin DOMAIN lifecycle.plugins THEN "not registered"
                  ELSE IF lifecycle.plugins[c.name].State # StateRunning THEN "state"
                  ELSE IF \E p \in DOMAIN lifecycle.plugins :
                             /\ c.name \in Dependencies[p]
                             /\ lifecycle.plugins[p].State = StateRunning
                  THEN "depended on"
                  ELSE ""
       IN  lifecycle' =
             IF err = ""
             THEN [lifecycle EXCEPT !.plugins[c.name].State = StateStopping,
                                    !.calls[g].pc = "stop2"]
             ELSE IF c.op = "UpdateConfig"
             THEN [lifecycle EXCEPT !.plugins[c.name].Config = c.oldConfig,
                                    !.calls[g] = Return(g, err)]
             ELSE [lifecycle EXCEPT !.calls[g] = Return(g, err)]
    /\ UNCHANGED <<file, currentConfig, routeVars>>
    /\ UNCHANGED <<reload, lastReload, pluginVars, inflight, hist, limiterVars, breakerVars,
                   besideLifecycle>>

\* the plugin's Stop, close(p.stopChan): the close of a closed channel panics; the
\* cleanup goroutines return
PluginStop(instance) ==
    IF instance.closed THEN <<>> ELSE <<[closed |-> TRUE, janitors |-> 0]>>

\* Stop after the unlock: stopPlugin.Stop(), updateState(StateStopped); UpdateConfig
\* goes on to Start
StopPlugin(g) ==
    /\ ~lifecycle.panicked
    /\ lifecycle.calls[g].pc = "stop2"
    /\ LET c == lifecycle.calls[g]
           stopped == PluginStop(lifecycle.instances[c.name])
       IN  lifecycle' =
             IF stopped = <<>> THEN [lifecycle EXCEPT !.panicked = TRUE]
             ELSE [lifecycle EXCEPT
                     !.instances[c.name] = stopped[1],
                     !.plugins[c.name].State = StateStopped,
                     !.calls[g] = IF c.op = "UpdateConfig" THEN [c EXCEPT !.pc = "start1"]
                                  ELSE Return(g, "")]
    /\ UNCHANGED <<file, currentConfig, routeVars>>
    /\ UNCHANGED <<reload, lastReload, pluginVars, inflight, hist, limiterVars, breakerVars,
                   besideLifecycle>>

\* Start under m.mu
StartLock(g) ==
    /\ ~lifecycle.panicked
    /\ lifecycle.calls[g].pc = "start1"
    /\ LET c == lifecycle.calls[g]
           err == IF c.name \notin DOMAIN lifecycle.plugins THEN "not registered"
                  ELSE IF lifecycle.plugins[c.name].State # StateStopped THEN "state"
                  ELSE IF \E d \in Dependencies[c.name] :
                             lifecycle.plugins[d].State # StateRunning
                  THEN "dependency"
                  ELSE ""
       IN  lifecycle' =
             IF err = ""
             THEN [lifecycle EXCEPT !.plugins[c.name].State = StateStarting,
                                    !.calls[g].pc = "start2"]
             ELSE [lifecycle EXCEPT !.calls[g] = Return(g, err)]
    /\ UNCHANGED <<file, currentConfig, routeVars>>
    /\ UNCHANGED <<reload, lastReload, pluginVars, inflight, hist, limiterVars, breakerVars,
                   besideLifecycle>>

\* Init of the rate limiter and of the circuit breaker: a config of another type is an
\* error; go p.cleanupLoop() / go p.startCleanup(), which returns at once when the stop
\* channel is closed
ManagedInit(instance, config) ==
    IF ~config.map THEN <<>>
    ELSE <<[instance EXCEPT !.janitors = IF instance.closed THEN @ ELSE @ + 1]>>

\* Start after the unlock: info.Plugin.Init(info.Config), updateState
StartInit(g) ==
    /\ ~lifecycle.panicked
    /\ lifecycle.calls[g].pc = "start2"
    /\ LET c == lifecycle.calls[g]
           inited == ManagedInit(lifecycle.instances[c.name], lifecycle.plugins[c.name].Config)
       IN  lifecycle' =
             IF inited = <<>>
             THEN [lifecycle EXCEPT !.plugins[c.name].State = StateFailed,
                                    !.calls[g] = Return(g, "init")]
             ELSE [lifecycle EXCEPT !.instances[c.name] = inited[1],
                                    !.plugins[c.name].State = StateRunning,
                                    !.calls[g] = Return(g, "")]
    /\ UNCHANGED <<file, currentConfig, routeVars>>
    /\ UNCHANGED <<reload, lastReload, pluginVars, inflight, hist, limiterVars, breakerVars,
                   besideLifecycle>>

\* the steps of the calls in progress
CallSteps(g) ==
    \/ StopLock(g)
    \/ StopPlugin(g)
    \/ StartLock(g)
    \/ StartInit(g)

\* the LifecycleManager right after the registrations, in a gateway that runs ConfigA
InitManaged == InitReload /\ file = ConfigA

\* concurrent calls of Start and Stop
NextManaged ==
    \/ \E g \in 1..MaxCallers : \E op \in {"Start", "Stop"} : \E name \in ManagedNames :
          Call(g, op, name, NotAMap)
    \/ \E g \in 1..MaxCallers : CallSteps(g)

SpecManaged == InitManaged /\ [][NextManaged]_vars

\* Start, Stop and UpdateConfig called one after the other
NextRestart ==
    \/ \E op \in {"Start", "Stop"} : \E name \in ManagedNames : Call(1, op, name, NotAMap)
    \/ \E name \in ManagedNames : \E config \in ManagedConfigs :
          Call(1, "UpdateConfig", name, config)
    \/ UpdateConfigLock(1)
    \/ UpdateConfigRead(1)
    \/ CallSteps(1)

SpecRestart == InitManaged /\ [][NextRestart]_vars

(***************************************************************************)
(* The FallbackHandler with its sync.RWMutex.                              *)
(***************************************************************************)
\* a FallbackConfig: degrade from one error in the window on, recover after
\* RecoveryTime seconds
FallbackConfig ==
    [Enabled |-> TRUE, Threshold |-> [num |-> 1, den |-> 2], WindowSize |-> 2,
     RecoveryTime |-> RecoveryTime]

\* a goroutine waits in h.mu.Lock(): no new reader is let in
WriterWaiting == \E g \in DOMAIN fallback.calls : fallback.calls[g].pc \in {"Lock", "upgrade"}

\* a goroutine calls IsDegraded or RecordError
FallbackCall(g, op) ==
    /\ fallback.calls[g].pc \in {"idle", "done"}
    /\ op = "RecordError" => fallback.errors < MaxErrors
    /\ fallback' = [fallback EXCEPT !.calls[g] =
                       IF op = "RecordError" /\ ~FallbackConfig.Enabled
                       THEN [pc |-> "done", op |-> op, result |-> FALSE]
                       ELSE [pc |-> IF op = "RecordError" THEN "Lock" ELSE "RLock",
                             op |-> op, result |-> FALSE]]
    /\ UNCHANGED <<file, currentConfig, routeVars>>
    /\ UNCHANGED <<reload, lastReload, pluginVars, inflight, hist, limiterVars, breakerVars,
                   besideFallback>>

\* RecordError from h.mu.Lock() to the deferred Unlock: the errors are kept or dropped
\* all together by the age of lastError, the new one is appended, the rate is compared
RecordError(g) ==
    /\ fallback.calls[g].pc = "Lock"
    /\ fallback.readers = {}
    /\ LET kept == IF now - fallback.lastError <= FallbackConfig.WindowSize
                   THEN fallback.errors ELSE 0
           errors == kept + 1
       IN  fallback' =
             [fallback EXCEPT
                !.errors = errors,
                !.lastError = now,
                !.isDegraded = @ \/ (errors * FallbackConfig.Threshold.den >=
                                        FallbackConfig.Threshold.num * FallbackConfig.WindowSize),
                !.calls[g].pc = "done"]
    /\ UNCHANGED <<file, currentConfig, routeVars>>
    /\ UNCHANGED <<reload, lastReload, pluginVars, inflight, hist, limiterVars, breakerVars,
                   besideFallback>>

\* IsDegraded, a step: h.mu.RLock() to the return or to h.mu.Lock(), which is called
\* with the read lock held (the deferred RUnlock has not run) and waits for the readers
\* to leave; then the reset, Unlock and the return
IsDegraded(g) ==
    /\ fallback.calls[g].pc \in {"RLock", "upgrade"}
    /\ fallback.calls[g].pc = "RLock" => ~WriterWaiting
    /\ fallback.calls[g].pc = "upgrade" => fallback.readers = {}
    /\ fallback' =
          IF fallback.calls[g].pc = "upgrade"
          THEN [fallback EXCEPT !.isDegraded = FALSE, !.errors = 0,
                                !.readers = @ \ {g},
                                !.calls[g] = [@ EXCEPT !.pc = "done", !.result = FALSE]]
          ELSE IF ~fallback.isDegraded
          THEN [fallback EXCEPT !.calls[g] = [@ EXCEPT !.pc = "done", !.result = FALSE]]
          ELSE IF now - fallback.lastError >= FallbackConfig.RecoveryTime
          THEN [fallback EXCEPT !.readers = @ \cup {g}, !.calls[g].pc = "upgrade"]
          ELSE [fallback EXCEPT !.calls[g] = [@ EXCEPT !.pc = "done", !.result = TRUE]]
    /\ UNCHANGED <<file, currentConfig, routeVars>>
    /\ UNCHANGED <<reload, lastReload, pluginVars, inflight, hist, limiterVars, breakerVars,
                   besideFallback>>

\* the clock
FallbackTick ==
    /\ now < MaxFallbackTime
    /\ now' = now + 1
    /\ UNCHANGED <<buckets, bucketHeap, limitReqs, lastSweep, admits, lastSeen, epochAdmits>>
    /\ UNCHANGED <<breakerVars, otherVars>>
    /\ UNCHANGED <<file, currentConfig, routeVars>>
    /\ UNCHANGED <<reload, lastReload, pluginVars, inflight, hist>>

NextFallback ==
    \/ \E g \in 1..MaxFallbackCallers : \E op \in {"IsDegraded", "RecordError"} :
          FallbackCall(g, op)
    \/ \E g \in 1..MaxFallbackCallers : RecordError(g)
    \/ \E g \in 1..MaxFallbackCallers : IsDegraded(g)
    \/ FallbackTick

SpecFallback == InitManaged /\ [][NextFallback]_vars

\* the Go scheduler runs every goroutine that can take a step
SpecFallbackFair ==
    /\ SpecFallback
    /\ \A g \in 1..MaxFallbackCallers : WF_vars(RecordError(g)) /\ WF_vars(IsDegraded(g))

(***************************************************************************)
(* ReloadConfig called by the reload worker and by the signal handler.     *)
(***************************************************************************)
\* the scheduler takes the processor from one of the two goroutines and gives it to the
\* other: ReloadConfig takes no lock that would keep the second one out
Yield ==
    /\ parked' = [who |-> IF parked.who = "signal" THEN "worker" ELSE "signal",
                  reload |-> reload]
    /\ reload' = parked.reload
    /\ UNCHANGED <<file, currentConfig, routeVars>>
    /\ UNCHANGED <<lastReload, pluginVars, inflight, hist, limiterVars, breakerVars,
                   besideSignal>>

\* the running goroutine gets its trigger (a signal from reloadChan, or SIGHUP/SIGUSR1)
\* and calls ReloadConfig; its steps; the other goroutine's turn
NextSignals ==
    \/ \E f \in WatchFiles : ReloadConfig(f)
    \/ ReloadSteps
    \/ Yield

SpecSignals == InitReload /\ [][NextSignals]_vars

(***************************************************************************)
(* The ConfigCenter and its version history.                               *)
(***************************************************************************)
\* a Config of the ConfigCenter: log level, available plugins and routes
CenterConfig(level, available, routes) ==
    [level |-> level, available |-> available, routes |-> routes]

\* the newConfig arguments of UpdateConfig: zero values leave a field as it is; the
\* last route list has a route without a name
CenterUpdates ==
    {CenterConfig(level, <<>>, routes) :
        level \in {"", "debug", "warn"},
        routes \in {<<>>, ConfigB.routes,
                    <<RouteConfig("", PathMatch("prefix", <<"/">>, 1), "http://u1", <<>>)>>}}

\* addVersion at clock reading t: the current config is copied into a new version, the
\* oldest version is dropped when there are more than maxVersions
addVersion(versions, config, t) ==
    LET appended == Append(versions, [Version |-> t, Config |-> config])
    IN  IF Len(appended) > MaxVersions THEN Tail(appended) ELSE appended

\* the merge of UpdateConfig: only the non-zero fields of newConfig are taken
Merge(current, newConfig) ==
    [level |-> IF newConfig.level # "" THEN newConfig.level ELSE current.level,
     available |-> IF Len(newConfig.available) > 0 THEN newConfig.available
                   ELSE current.available,
     routes |-> IF Len(newConfig.routes) > 0 THEN newConfig.routes ELSE current.routes]

\* the loop of RollbackConfig: the first version with this identifier, 0 if there is none
RECURSIVE FindVersion(_, _, _)
FindVersion(versions, version, i) ==
    IF i > Len(versions) THEN 0
    ELSE IF versions[i].Version = version THEN i
    ELSE FindVersion(versions, version, i + 1)

\* time.Now().UnixNano() in addVersion: the reading of the previous call or a later one
UnixNano == {t \in {center.UnixNano, center.UnixNano + 1} : t <= MaxUnixNano}

\* ConfigCenter.Init(configPath), called once: the file's config becomes the current
\* one and the version "initial" is added
CenterInit(level) ==
    /\ center.currentConfig = <<>>
    /\ LET config == CenterConfig(level, file.available, file.routes)
       IN  /\ TestConfig(file)
           /\ \E t \in UnixNano :
                 center' = [currentConfig |-> <<config>>,
                            versions |-> addVersion(center.versions, config, t),
                            UnixNano |-> t,
                            last |-> <<[op |-> "Init", err |-> FALSE]>>]
    /\ UNCHANGED <<file, currentConfig, routeVars>>
    /\ UNCHANGED <<reload, lastReload, pluginVars, inflight, hist, limiterVars, breakerVars,
                   besideCenter>>

\* ConfigCenter.UpdateConfig(newConfig, comment)
CenterUpdateConfig(newConfig) ==
    /\ LET merged == IF center.currentConfig = <<>> THEN newConfig
                     ELSE Merge(center.currentConfig[1], newConfig)
       IN  IF center.currentConfig # <<>> /\ ValidateConfig(merged)
           THEN \E t \in UnixNano :
                   center' = [currentConfig |-> <<merged>>,
                              versions |-> addVersion(center.versions, merged, t),
                              UnixNano |-> t,
                              last |-> <<[op |-> "UpdateConfig", err |-> FALSE]>>]
           ELSE center' = [center EXCEPT !.last = <<[op |-> "UpdateConfig", err |-> TRUE]>>]
    /\ UNCHANGED <<file, currentConfig, routeVars>>
    /\ UNCHANGED <<reload, lastReload, pluginVars, inflight, hist, limiterVars, breakerVars,
                   besideCenter>>

\* ConfigCenter.RollbackConfig(version); the caller means the retained version at
\* position meant, or a version that is not retained (meant = 0)
RollbackConfig(version, meant) ==
    /\ LET i == FindVersion(center.versions, version, 1)
           log == [op |-> "RollbackConfig", err |-> i = 0, version |-> version,
                   recorded |-> IF meant = 0 THEN <<>> ELSE <<center.versions[meant].Config>>]
       IN  IF i = 0 THEN center' = [center EXCEPT !.last = <<log>>]
           ELSE \E t \in UnixNano :
                   center' = [currentConfig |-> <<center.versions[i].Config>>,
                              versions |-> addVersion(center.versions,
                                                      center.versions[i].Config, t),
                              UnixNano |-> t,
                              last |-> <<log>>]
    /\ UNCHANGED <<file, currentConfig, routeVars>>
    /\ UNCHANGED <<reload, lastReload, pluginVars, inflight, hist, limiterVars, breakerVars,
                   besideCenter>>

NextCenter ==
    \/ CenterInit("info")
    \/ \E newConfig \in CenterUpdates : CenterUpdateConfig(newConfig)
    \/ \E meant \in DOMAIN center.versions :
          RollbackConfig(center.versions[meant].Version, meant)
    \/ RollbackConfig(MaxUnixNano + 1, 0)

SpecCenter == InitManaged /\ [][NextCenter]_vars

(***************************************************************************)
(* Route selection: what the documentation promises.                       *)
(***************************************************************************)
\* the path predicate of a route as docs/routing.md describes the four match types
PathHolds(path, m) ==
    CASE m.type = "exact" -> path = m.path
      [] m.type = "prefix" -> HasPrefix(path, m.path)
      [] m.type = "regex" -> RegexMatch(path, m.path)
      [] m.type = "wildcard" -> WildcardMatchFrom(path, m.path)

\* the declared non-path predicates of a route
NonPathHolds(req, m) ==
    /\ (m.host # "" => req.host = m.host)
    /\ (m.method # "" => req.method = m.method)
    /\ \A kv \in m.headers : GetHeader(req, kv[1]) = kv[2]
    /\ \A kv \in m.query : Query(req, kv[1]) = kv[2]

\* the full predicate set of a route holds for the request
Satisfies(req, m) == PathHolds(req.path, m) /\ NonPathHolds(req, m)

\* a lookup has returned
Returned == lookup \in {"disp", "cache", "trie", "linear", "nomatch"}

\* the route the last lookup selected
Selected == IF lookup = "disp" THEN dispSel ELSE mgrSel

\* the loaded route set the last lookup ran against
Loaded == IF lookup = "disp" THEN currentConfig.routes ELSE mgrRoutes

\* C1: a lookup selects at most one route; the selected route satisfies the request
\* and no satisfying route has a higher priority; when some route satisfies the
\* request a route is selected.
C1_HighestPrioritySelected ==
    Returned =>
        LET req == lastReq[1]
            ok == {i \in 1..Len(Loaded) : Satisfies(req, Loaded[i].match)}
        IN /\ Len(Selected) <= 1
           /\ Selected # <<>> =>
                 \E i \in ok :
                    /\ Loaded[i].name = Selected[1].name
                    /\ \A j \in ok : Loaded[j].match.priority <= Loaded[i].match.priority
           /\ ok # {} => Selected # <<>>

\* C2: a selected route's declared host, method, headers and query_params all equal
\* the request's, whichever lookup path selected it.
C2_NonPathPredicatesHold ==
    (Returned /\ Selected # <<>>) => NonPathHolds(lastReq[1], Selected[1].match)

\* C3: the selected route is never preceded in the file by a route of the same
\* priority that also matches the request.
C3_EarlierDeclaredWins ==
    (Returned /\ Selected # <<>>) =>
        \A i, j \in 1..Len(Loaded) :
            (/\ i < j
             /\ Loaded[j].name = Selected[1].name
             /\ Loaded[i].match.priority = Loaded[j].match.priority
             /\ Satisfies(lastReq[1], Loaded[j].match))
            => ~Satisfies(lastReq[1], Loaded[i].match)

\* C4: a lookup of the manager never returns a route that is not in the route set
\* loaded last.
C4_LookupReturnsLoadedRoute ==
    (lookup \in {"cache", "trie", "linear"} /\ mgrSel # <<>>) =>
        \E i \in 1..Len(mgrRoutes) : mgrRoutes[i] = mgrSel[1]

(***************************************************************************)
(* What is claimed about hot reload.                                       *)
(***************************************************************************)
Range(seq) == {seq[i] : i \in 1..Len(seq)}

\* the plugins a snapshot declares with enabled = true
EnabledIn(cfg) ==
    {cfg.available[i].name : i \in {j \in 1..Len(cfg.available) : cfg.available[j].enabled}}

\* the config a snapshot declares for an enabled plugin
DeclaredConfig(cfg, name) ==
    cfg.available[CHOOSE i \in 1..Len(cfg.available) :
                     cfg.available[i].name = name /\ cfg.available[i].enabled].config

\* no reload is running and the last one, if any, ended as said
Settled(how) == reload.pc = "idle" /\ lastReload \in how

\* the plugins bound to a route name, none when it has no chain
Bound(routeName) ==
    IF routeName \in DOMAIN routeChains THEN Range(routeChains[routeName]) ELSE {}

\* C5: a request that started after a successful reload, with no reload begun
\* since, was matched against the new snapshot's route table, ran the chain the new
\* snapshot lists for its route, and every plugin it ran or whose memoized result
\* it took worked under the config the new snapshot declares for it.
C5_NewRequestsSeeNewSnapshot ==
    \A i \in DOMAIN inflight :
        LET q == inflight[i]
        IN  (q.pc = "done" /\ q.quiet /\ ~q.overlap /\ Settled({"ok"})) =>
                /\ q.route = FirstMatch(SortByPriority(currentConfig.routes), q.path)
                /\ q.route # <<>> => Range(q.chain) = Range(q.route[1].plugins)
                /\ \A e \in q.ran \cup q.hits :
                      /\ e[1] \in EnabledIn(currentConfig)
                      /\ e[2] = DeclaredConfig(currentConfig, e[1])

\* C6: a request matched before a reload began and executed after it began used the
\* chain its route had when it was matched, and the target of the route it matched.
C6_InFlightKeepsOldSnapshot ==
    \A i \in DOMAIN inflight :
        LET q == inflight[i]
        IN  (q.pc = "done" /\ q.quiet /\ q.overlap) =>
                /\ q.chain = q.chainAtMatch
                /\ q.target \in {"", q.route[1].target}

\* C7: after a failed reload GetConfig, the route table and the chains are what
\* they were before the attempt.
C7_FailedReloadKeepsSnapshot ==
    Settled({"failed"}) =>
        /\ currentConfig = hist[1].config
        /\ engineRoutes = hist[1].engine
        /\ routeChains = hist[1].chains

\* C8: after a successful load or reload every plugin bound to a chain is declared
\* enabled in the current snapshot, and the current snapshot has no route that
\* lists an undeclared or disabled plugin.
C8_BoundPluginsDeclaredEnabled ==
    Settled({"none", "ok"}) =>
        /\ \A rn \in DOMAIN routeChains : Bound(rn) \subseteq EnabledIn(currentConfig)
        /\ \A i \in 1..Len(currentConfig.routes) :
              Range(currentConfig.routes[i].plugins) \subseteq EnabledIn(currentConfig)

\* C9: after a successful reload each route of the snapshot is bound to exactly the
\* plugins it lists, and every chain belongs to a route of the snapshot.
C9_ChainsAreRoutesPlugins ==
    Settled({"ok"}) =>
        /\ \A i \in 1..Len(currentConfig.routes) :
              Bound(currentConfig.routes[i].name) = Range(currentConfig.routes[i].plugins)
        /\ \A rn \in DOMAIN routeChains :
              \E i \in 1..Len(currentConfig.routes) : currentConfig.routes[i].name = rn

\* C10: after a successful reload a plugin enabled before and after with the same
\* config is the same instance in the same state, and one whose config changed is
\* another instance, the old one stopped.
C10_PluginInstancesFollowConfig ==
    Settled({"ok"}) =>
        \A p \in EnabledIn(hist[1].config) \cap EnabledIn(currentConfig) :
            IF DeclaredConfig(hist[1].config, p) = DeclaredConfig(currentConfig, p)
            THEN registry[p] = hist[1].plugins[p]
            ELSE /\ registry[p].instance # hist[1].plugins[p].instance
                 /\ registry[p].stopped

(***************************************************************************)
(* What is claimed about plugin chains.                                    *)
(***************************************************************************)
\* the order a snapshot declares for an enabled plugin
DeclaredOrder(cfg, name) ==
    cfg.available[CHOOSE i \in 1..Len(cfg.available) :
                     cfg.available[i].name = name /\ cfg.available[i].enabled].order

\* the position of a plugin in a route's plugins list
ListedAt(list, name) == CHOOSE i \in 1..Len(list) : list[i] = name

\* C11: a successful reload of a file with the contents of the snapshot already
\* loaded leaves every plugin instance as it was: same config, same state, no
\* further janitor.
C11_SameFileReloadIsNoOp ==
    (Settled({"ok"}) /\ currentConfig = hist[1].config) => registry = hist[1].plugins

\* C12: the plugins a request executed ran in ascending order of the order declared
\* for them in plugins.available, equal orders in the order of the route's list.
C12_ChainFollowsDeclaredOrder ==
    \A i \in DOMAIN inflight :
        LET q == inflight[i]
        IN  (q.pc = "done" /\ q.route # <<>>) =>
                \A j, k \in 1..Len(q.trace) :
                    j < k =>
                        LET a == DeclaredOrder(currentConfig, q.trace[j].plugin)
                            b == DeclaredOrder(currentConfig, q.trace[k].plugin)
                        IN  \/ a < b
                            \/ /\ a = b
                               /\ ListedAt(q.route[1].plugins, q.trace[j].plugin)
                                     < ListedAt(q.route[1].plugins, q.trace[k].plugin)

\* C13: no plugin executes after a plugin of the chain has aborted the request,
\* and an aborted request is not proxied.
C13_ShortCircuitStopsChain ==
    \A i \in DOMAIN inflight :
        LET q == inflight[i]
        IN  q.pc = "done" =>
                /\ \A j \in 1..Len(q.trace) : ~q.trace[j].after
                /\ q.aborted => "proxy" \notin Range(q.written)

\* C14: a request whose chain failed got exactly one response, and the chain
\* stopped at the failing plugin.
C14_FailureRendersOnce ==
    \A i \in DOMAIN inflight :
        LET q == inflight[i]
        IN  (q.pc = "done" /\ q.err) =>
                /\ Len(q.written) = 1
                /\ Len(q.trace) <= Len(q.chain)

(***************************************************************************)
(* The rate limiter: what the documentation promises.                      *)
(***************************************************************************)
\* the rate and the burst the configuration declares for the limiter
DeclaredLimit == DeclaredConfig(currentConfig, "rate_limit")

\* C15: for the limiter key, whatever the interleaving of requests and janitor runs,
\* the requests admitted within one second (a part of every rolling one-second
\* window that holds it) are at most rate + burst
C15_WindowAdmitsAtMostRatePlusBurst ==
    admits <= DeclaredLimit.requests_per_second.v + DeclaredLimit.burst.v

\* C16: a key with rate 0 and burst 1 admits one request per idle epoch: between two
\* idle periods of more than 5 minutes no second request of the key is admitted
C16_OneAdmissionPerIdleEpoch ==
    DeclaredLimit = Limit0 => epochAdmits <= 1

(***************************************************************************)
(* The circuit breaker: what the documentation promises.                   *)
(***************************************************************************)
\* a request has had its verdict from the breaker of the target
Decided == verdict.status # ""

\* the thresholds the breaker of the target was made with
Thresholds == circuitBreakers[BreakerTarget].config

\* C17: while the breaker is open no request is admitted: a request that gets its
\* verdict from an open breaker that stays open is answered 503
C17_OpenBreakerAdmitsNothing ==
    (Decided /\ verdict.was = StateOpen /\ verdict.became = StateOpen)
        => verdict.status = "503"

\* what holds of C17 in the code: a request that read the state as open is admitted
\* only if it is the one that turns the open breaker half-open
OpenReadAdmitsOnlyTransition ==
    (Decided /\ verdict.seen = StateOpen /\ verdict.status = "admitted")
        => (verdict.was = StateOpen /\ verdict.became = StateHalfOpen)

\* C18: a closed breaker turns open, in one atomic step, when the failure ratio of the
\* window has reached FT/100, and only then; a breaker that has recorded no request
\* is closed
C18_ClosedOpensAtThresholdAtomically ==
    /\ (Decided /\ verdict.seen = StateClosed /\ verdict.was = StateClosed
            /\ verdict.reached) => verdict.became = StateOpen
    /\ (Decided /\ verdict.was # StateOpen /\ verdict.became = StateOpen)
            => (verdict.was = StateClosed /\ verdict.reached)
    /\ (BreakerTarget \in DOMAIN circuitBreakers /\ Recorded = 0)
            => circuitBreakers[BreakerTarget].state = StateClosed

\* C19: a request that meets the breaker open RT seconds or more after it opened turns
\* it half-open and is admitted
C19_OpenTurnsHalfOpenAfterTimeout ==
    (Decided /\ verdict.seen = StateOpen /\ verdict.was = StateOpen
        /\ verdict.age >= Thresholds.recovery_timeout)
        => (verdict.status = "admitted" /\ verdict.became = StateHalfOpen)

\* C20: a half-open breaker whose quota is used up and whose trial requests have all
\* failed is open again, not half-open
C20_FailedTrialsReopen ==
    (/\ BreakerTarget \in DOMAIN circuitBreakers
     /\ circuitBreakers[BreakerTarget].halfOpenQuota <= 0
     /\ trials.admitted > 0
     /\ trials.failed = trials.admitted)
        => circuitBreakers[BreakerTarget].state # StateHalfOpen

C22_HalfOpenAdmitsAtMostQuota ==
    BreakerTarget \in DOMAIN circuitBreakers
        => trials.admitted <= Thresholds.half_open_quota


\* C23: once k recordings of outcomes have returned and none is under way, the window
\* counts exactly k outcomes, the failures among them exactly, and a ratio read
\* then is over all k
C23_WindowCountsEveryOutcome ==
    (\A g \in DOMAIN recorders : recorders[g].pc = "idle")
        => LET rate == GetFailureRate(Pointees(win), now)
           IN  /\ rate.totalFailures = recordsDone.failures
               /\ rate.totalRequests = recordsDone.failures + recordsDone.successes

\* C24: a request matched by a route whose target is internal://... makes no call to
\* an upstream; when its chain has run to the end without aborting, the plugins of the
\* chain ran first and the answer is the route's response, or 200 with the default body
C24_InternalAnsweredLocally ==
    \A i \in DOMAIN served :
        LET s == served[i]
            route == s.route[1]
            bound == IF route.name \in DOMAIN routeChains THEN routeChains[route.name] ELSE <<>>
        IN  (s.route # <<>> /\ route.target = "internal://default")
                => /\ s.calls = <<>>
                   /\ s.passed =>
                         /\ Len(s.chain) = Len(bound)
                         /\ IF route.response # <<>>
                            THEN /\ s.status = route.response[1].status
                                 /\ s.body = route.response[1].content
                            ELSE s.status = 200 /\ s.body = "gateway-go running"

\* an internal route behind cors has answered with its configured response
C24_Answered ==
    /\ served # <<>>
    /\ served[1].route # <<>> /\ served[1].route[1].target = "internal://default"
    /\ served[1].passed /\ served[1].chain # <<>>
    /\ served[1].status = 201 /\ served[1].body = "ok"

IdempotentMethods == {"GET", "OPTIONS"}

\* C26: the upstream is called again only after a failed call, at most target.retries
\* more times and only for an idempotent method, and 502 is answered only when the
\* first call and all the retries permitted have failed
C26_BadGatewayAfterPermittedRetries ==
    \A i \in DOMAIN served :
        served[i].calls # <<>> =>
            LET s == served[i]
                permitted == IF s.req.method \in IdempotentMethods
                             THEN s.route[1].retries ELSE 0
            IN  /\ Len(s.calls) <= 1 + permitted
                /\ \A k \in 1..(Len(s.calls) - 1) : s.calls[k].outcome.err
                /\ s.status = 502 =>
                      /\ Len(s.calls) = 1 + permitted
                      /\ \A k \in DOMAIN s.calls : s.calls[k].outcome.err

\* timestamp_validity as the file declares it for the consistency plugin
DeclaredValidity == DeclaredConfig(currentConfig, "consistency").timestamp_validity.v

\* C27: a request that carries a nonce stored for an earlier request, and a timestamp
\* within timestamp_validity of its arrival, is answered 400
C27_StoredNonceIsRefused ==
    \A i \in DOMAIN nonceLog.last :
        LET q == nonceLog.last[i]
        IN  (/\ q.replay
             /\ q.req.signature # ""
             /\ q.req.timestamp.numeric
             /\ Abs(q.at - q.req.timestamp.v) <= DeclaredValidity)
                => q.status = 400

\* C28: a signed request whose timestamp is timestamp_validity seconds before or after
\* its arrival is not refused as expired; one whose timestamp is one second further
\* off is answered 400
C28_ValidityBoundIsInclusive ==
    \A i \in DOMAIN nonceLog.last :
        LET q == nonceLog.last[i]
            off == Abs(q.at - q.req.timestamp.v)
        IN  (q.req.signature # "" /\ q.req.timestamp.numeric)
                => /\ off = DeclaredValidity => q.err # "timestamp expired"
                   /\ off = DeclaredValidity + 1 => q.status = 400

\* the same bound for the validity the plugin works with
EffectiveBoundIsInclusive ==
    \A i \in DOMAIN nonceLog.last :
        LET q == nonceLog.last[i]
            off == Abs(q.at - q.req.timestamp.v)
            validity == ConsistencyInit(registry["consistency"].config).timestamp_validity
        IN  (q.req.signature # "" /\ q.req.timestamp.numeric)
                => /\ off = validity => q.err # "timestamp expired"
                   /\ off = validity + 1 => q.status = 400 /\ q.err = "timestamp expired"

\* C29: when interface_auth has asked the auth service and got an answer, status 200
\* with the trimmed body "false" lets the request pass, status 200 with the trimmed
\* body "true" is answered 403, and every other answer is answered 500
C29_AuthAnswerMapping ==
    \A i \in DOMAIN authLog :
        LET q == authLog[i]
            resp == q.resp[1]
            verdict200 == IF resp.status = "200" THEN TrimSpace(resp.body) ELSE <<>>
        IN  (q.called /\ ~resp.failed) =>
                IF verdict200 = <<"false">> THEN ~q.err /\ q.wrote = <<>>
                ELSE IF verdict200 = <<"true">> THEN q.wrote = <<"403">>
                ELSE q.wrote = <<"500">>

C31_OneOfConcurrentNoncesAccepted ==
    \A g, h \in DOMAIN nonceReqs :
        (/\ g # h
         /\ nonceReqs[g].pc = "done" /\ nonceReqs[h].pc = "done"
         /\ nonceReqs[g].req.nonce = nonceReqs[h].req.nonce
         /\ h \in nonceReqs[g].beside)
            => ~(nonceReqs[g].err = "" /\ nonceReqs[h].err = "")

\* C32: a plugin is skipped through the cache only for an entry that a request with the
\* same method, host, path, raw query and header values set less than the TTL ago, and
\* a plugin that returned an error sets no entry
C32_CacheHitOnlyForSameRequest ==
    cacheLog # <<>> =>
        /\ \A h \in cacheLog[1].hits :
              /\ h.entry.by = cacheLog[1].req
              /\ cacheLog[1].at - h.entry.at < PluginCacheTTL
        /\ cacheLog[1].set \cap cacheLog[1].failed = {}

\* C33: the routes of the configuration in force have different names
C33_RouteNamesUnique ==
    \A i, j \in DOMAIN currentConfig.routes :
        i # j => currentConfig.routes[i].name # currentConfig.routes[j].name

\* C34: after a second or later Init, a client address is allowed iff the list of that
\* Init is empty or holds the address or a CIDR that contains it
C34_ReloadedWhitelistDecides ==
    (ipLog.inits >= 2 /\ ipLog.last # <<>>) =>
        (ipLog.last[1].allowed <=> isIPAllowed(ipLog.list, ipLog.last[1].ip))

\* C35: every plugin in state Running has all of its dependencies in state Running
C35_RunningDependenciesRunning ==
    \A n \in DOMAIN lifecycle.plugins :
        lifecycle.plugins[n].State = StateRunning =>
            \A d \in Dependencies[n] : lifecycle.plugins[d].State = StateRunning

\* C36: when UpdateConfig has returned an error, the plugin's config and state are what
\* they were before the call
C36_FailedUpdateChangesNothing ==
    \A g \in DOMAIN lifecycle.calls :
        LET c == lifecycle.calls[g]
        IN  (c.pc = "done" /\ c.op = "UpdateConfig" /\ c.err # "" /\ c.before # <<>>) =>
                lifecycle.plugins[c.name] = c.before[1]

\* C37: no Stop panics, and a plugin that is Running after it has been stopped has its
\* cleanup goroutine
C37_RestartedPluginHasJanitor ==
    /\ ~lifecycle.panicked
    /\ \A n \in DOMAIN lifecycle.plugins :
          (lifecycle.plugins[n].State = StateRunning /\ lifecycle.instances[n].closed) =>
              lifecycle.instances[n].janitors > 0

\* C38: every call of IsDegraded returns, and a call that finds the handler degraded
\* with RecoveryTime elapsed since the last error returns false with the handler no
\* longer degraded
C38_IsDegradedReturnsAfterRecovery ==
    \A g \in 1..MaxFallbackCallers :
        /\ (fallback.calls[g].pc = "RLock") ~> (fallback.calls[g].pc = "done")
        /\ (fallback.calls[g].pc = "upgrade") ~>
               (fallback.calls[g].pc = "done" /\ ~fallback.calls[g].result)

\* C39: the reload worker and the signal handler are never both inside ReloadConfig
C39_OneReloadAtATime == ~(reload.pc # "idle" /\ parked.reload.pc # "idle")

\* C40: RollbackConfig(v) for a version v of the history succeeds and makes the config
\* recorded in v the current config
C40_RollbackRestoresRecordedConfig ==
    (center.last # <<>> /\ center.last[1].op = "RollbackConfig"
        /\ center.last[1].recorded # <<>>) =>
            /\ ~center.last[1].err
            /\ center.currentConfig = center.last[1].recorded

=============================================================================
